---- MODULE Spec2Model ----
(***************************************************************************)
(* Transaction service dispatcher of as/src/base/thr_tsvc.c.               *)
(*                                                                         *)
(* One behaviour follows one call of process_transaction(tr): the fields   *)
(* of the transaction and of its message are fixed in Init, the results    *)
(* of the collaborators (security, partition balance, reservation gateway, *)
(* executors, proxy fabric) are drawn where the code calls them, and `log' *)
(* records, in order, every call that the dispatcher makes on a resource.  *)
(***************************************************************************)
EXTENDS Integers, Sequences, FiniteSets, TLC

\* ------------------------------------------------------------------------
\* Bounds of the model
\* ------------------------------------------------------------------------

\* largest msg.transaction_ttl (milliseconds) a message carries
MaxTtl == 1

\* largest duplicate count a reservation reports in rsv.n_dupl
MaxDupl == 1

\* node ids are 1..MaxNode; 0 is the invalid node
MaxNode == 2

\* cluster keys returned by the reservation gateway are 1..MaxKey
MaxKey == 2

\* ------------------------------------------------------------------------
\* Program constants
\* ------------------------------------------------------------------------

\* nanoseconds per millisecond of transaction_ttl
NsPerMs == 1000000

\* uint64_t arithmetic wraps at 2^64.  The model's integers are narrower,
\* so the wrap point is scaled down to 2^30: like 2^64 it lies above every
\* product transaction_ttl * 1000000 and above g_config.transaction_max_ns,
\* so only the sum with start_time can wrap.
U64 == 2^30

\* tr->origin
FROM_CLIENT == "client"
FROM_PROXY  == "proxy"
FROM_BATCH  == "batch"
FROM_IUDF   == "iudf"
FROM_NSUP   == "nsup"
Origins == {FROM_CLIENT, FROM_PROXY, FROM_BATCH, FROM_IUDF, FROM_NSUP}

\* transaction_status
TRANS_DONE_ERROR   == "DONE_ERROR"
TRANS_DONE_SUCCESS == "DONE_SUCCESS"
TRANS_IN_PROGRESS  == "IN_PROGRESS"
TRANS_WAITING      == "WAITING"
Statuses == {TRANS_DONE_ERROR, TRANS_DONE_SUCCESS, TRANS_IN_PROGRESS, TRANS_WAITING}

\* result codes that as_security_check / as_security_check_data_op return
\* on failure and that the dispatcher forwards verbatim
SecurityFailCodes == {"NOT_AUTHENTICATED", "ROLE_VIOLATION"}

\* non-zero return values of as_batch_direct_queue_task / as_scan and the
\* result code as_query leaves in tr->result_code
MultiRecFailCodes == {"FAIL_PARAMETER", "FAIL_FORBIDDEN"}

\* the message's classification, from the fields it carries:
\*  no key and no digest field and not a batch sub-transaction -> multi-record
MultiClasses  == {"batch_direct", "query", "scan"}
\*  digest field of the right size / of a wrong size, key (+ set), batch-sub
SingleClasses == {"digest_ok", "digest_bad", "key", "batch_sub"}

\* tr->start_time values: an ordinary one, and one a millisecond below wrap
StartTimes == {5000, U64 - NsPerMs}

\* g_config.transaction_max_ns values: 0 and the one second default
MaxNsValues == {0, 1000 * NsPerMs}

\* nanoseconds between tr->start_time and the dispatcher's cf_getns(): a
\* short wait on the queue, and one longer than MaxTtl milliseconds
QueueDelays == {1000, (MaxTtl + 1) * NsPerMs}

\* tr->end_time as the transaction arrives (0, or left from an earlier pass)
EndTimesAtEntry == {0, 7}

\* ------------------------------------------------------------------------
\* State
\* ------------------------------------------------------------------------

VARIABLES
    tr,                     \* as_transaction: origin, shipped_op, start_time, end_time, result_code
    msg,                    \* cl_msg: xdr, ns, ttl, read, write, delete, udf, class
    transaction_max_ns,     \* g_config.transaction_max_ns
    now,                    \* what cf_getns() returns during this call
    pc,                     \* position in process_transaction
    free_msgp,              \* local bool free_msgp
    rv,                     \* local int rv of the reservation call
    dest,                   \* local cf_node dest
    partition_cluster_key,  \* local uint64_t partition_cluster_key
    rsv,                    \* tr->rsv: [mode, n_dupl]; mode "none" when nothing is held
    status,                 \* transaction_status returned by the executor, "none" before
    handed,                 \* the collaborator the message buffer was handed to, "none" if none
    stage,                  \* the last position reached before Cleanup
    log                     \* calls made so far, in order

vars == <<tr, msg, transaction_max_ns, now, pc, free_msgp, rv, dest,
          partition_cluster_key, rsv, status, handed, stage, log>>

\* a logged call
Ev(op, code) == [op |-> op, code |-> code, dest |-> 0, key |-> 0, n_dupl |-> 0]

\* as_proxy_divert(dest, tr, ns, cluster_key) and whether it diverted
EvProxy(d, k, diverted) ==
    [op |-> "as_proxy_divert", code |-> IF diverted THEN "ok" ELSE "failed",
     dest |-> d, key |-> k, n_dupl |-> 0]

\* number of calls in s[i..] whose op is in ops and whose code is in codes
RECURSIVE CountFrom(_, _, _, _)
CountFrom(s, i, ops, codes) ==
    IF i > Len(s) THEN 0
    ELSE (IF s[i].op \in ops /\ s[i].code \in codes THEN 1 ELSE 0)
         + CountFrom(s, i + 1, ops, codes)

\* every code a logged call can carry
Codes == {"", "OK", "ok", "failed", "FAIL_NAMESPACE", "FAIL_UNAVAILABLE", "FAIL_TIMEOUT",
          "FAIL_PARAMETER", "FAIL_UNKNOWN", "FAIL_FORBIDDEN", "NOT_AUTHENTICATED",
          "ROLE_VIOLATION", "DONE_ERROR", "DONE_SUCCESS", "IN_PROGRESS", "WAITING", "PERM_READ", "PERM_WRITE", "PERM_QUERY", "PERM_UDF_QUERY",
          "PERM_SCAN", "PERM_UDF_SCAN"}

\* number of logged calls of the operations ops
Count(ops) == CountFrom(log, 1, ops, Codes)

\* number of logged calls of the operations ops that carry the code c
CountCode(ops, c) == CountFrom(log, 1, ops, {c})

\* the message of an internal-XDR proto: the dispatcher reads none of its fields
XdrMsg == [xdr |-> TRUE, ns |-> "absent", ttl |-> 0, read |-> FALSE, write |-> FALSE,
           delete |-> FALSE, udf |-> FALSE, class |-> "digest_ok"]

Msgs ==
    {XdrMsg} \cup
    [xdr : {FALSE}, ns : {"absent", "unknown", "known"}, ttl : 0..MaxTtl,
     read : BOOLEAN, write : BOOLEAN, delete : BOOLEAN, udf : BOOLEAN,
     class : MultiClasses \cup SingleClasses]

\* ------------------------------------------------------------------------
\* State of the queue plane (as_tsvc_init, thr_tsvc_enqueue)
\* ------------------------------------------------------------------------

VARIABLES
    use_queue_per_device,   \* g_config.use_queue_per_device
    n_transaction_queues,   \* g_config.n_transaction_queues
    storage_devices,        \* per namespace: s_attr.n_devices of its storage
    namespaces,             \* g_config.namespaces: [n_devices, dev_q_offset] each
    g_transaction_queues,   \* index -> the slot: created is FALSE for NULL; items: the pushed transactions, oldest first
    g_current_q,            \* uint32_t g_current_q
    tsvc_pc,                \* "start" before as_tsvc_init, then "running", or "crashed"
    producers,              \* per producer thread: its position in thr_tsvc_enqueue and its locals
    n_transaction_threads_per_queue,    \* g_config.n_transaction_threads_per_queue
    workers,                \* per thr_tsvc thread <<i, j>>: its position in the loop and the tr it popped
    worker_log              \* pops: per queue, the pops made on it, oldest first; calls: per transaction, the workers that passed it to process_transaction

workerVars == <<n_transaction_threads_per_queue, workers, worker_log>>

queueVars == <<use_queue_per_device, n_transaction_queues, storage_devices, namespaces,
               g_transaction_queues, g_current_q, tsvc_pc, producers, workerVars>>

\* the queue plane while a behaviour follows something else
QueuePlaneAside ==
    /\ use_queue_per_device = FALSE
    /\ n_transaction_queues = 0
    /\ storage_devices = << >>
    /\ namespaces = << >>
    /\ g_transaction_queues = << >>
    /\ g_current_q = 0
    /\ tsvc_pc = "aside"
    /\ producers = << >>
    /\ n_transaction_threads_per_queue = 0
    /\ workers = << >>
    /\ worker_log = << >>

\* ------------------------------------------------------------------------
\* State of the aggregation engine (as_aggr_process and its cursor, aggr_obj)
\* ------------------------------------------------------------------------

VARIABLES
    record_id_list,         \* ap_recl: the batches (as_index_keys_arr), each the records it holds
    iter,                   \* aobj.iter: live is FALSE for NULL; pos: how many batches cf_ll_getNext has returned
    keys_arr,               \* aobj.keys_arr: 0 for NULL, else the number of the batch
    keys_arr_offset,        \* aobj.keys_arr_offset
    rec_open,               \* aobj.rec_open
    aggr_pc,                \* position in as_aggr_process / istream_read
    aggr_ret,               \* << >> until as_aggr_process returns, then <<its return value>>
    reads,                  \* calls made on the cursor so far: istream_read, aclose, get_next
    loops,                  \* passes through the loop of the istream_read call under way
    aggr_log                \* calls made by the engine so far, in order

aggrVars == <<record_id_list, iter, keys_arr, keys_arr_offset, rec_open, aggr_pc,
              aggr_ret, reads, loops, aggr_log>>

\* the aggregation engine while a behaviour follows something else
AggregationAside ==
    /\ record_id_list = << >>
    /\ iter = [live |-> FALSE, pos |-> 0]
    /\ keys_arr = 0
    /\ keys_arr_offset = 0
    /\ rec_open = FALSE
    /\ aggr_pc = "aside"
    /\ aggr_ret = << >>
    /\ reads = 0
    /\ loops = 0
    /\ aggr_log = << >>

Init ==
    /\ QueuePlaneAside
    /\ AggregationAside
    /\ msg \in Msgs
    /\ tr \in [origin : Origins, shipped_op : BOOLEAN, start_time : StartTimes,
               end_time : EndTimesAtEntry, result_code : {"OK"}]
    /\ transaction_max_ns \in MaxNsValues
    /\ now \in {tr.start_time + d : d \in QueueDelays}
    /\ now < U64
    /\ pc = "entry"
    /\ free_msgp = TRUE
    /\ rv = 0
    /\ dest = 0
    /\ partition_cluster_key = 0
    /\ rsv = [mode |-> "none", n_dupl |-> 0]
    /\ status = "none"
    /\ handed = "none"
    /\ stage = "entry"
    /\ log = << >>

\* ------------------------------------------------------------------------
\* Decisions of process_transaction
\* ------------------------------------------------------------------------

should_security_check_data_op(t) == t.origin = FROM_CLIENT \/ t.origin = FROM_BATCH

\* as_transaction_is_multi_record(tr)
is_multi_record(m) == m.class \in MultiClasses

\* as_transaction_is_nsup_delete(tr)
is_nsup_delete(t) == t.origin = FROM_NSUP

\* bool is_write = (m->info2 & AS_MSG_INFO2_WRITE) != 0
is_write == msg.write

\* bool is_read = (m->info1 & AS_MSG_INFO1_READ) != 0
is_read == msg.read

\* tr->start_time + ((uint64_t)m->transaction_ttl * 1000000)
EndTimeFromTtl(start, ttl) == (start + ttl * NsPerMs) % U64

\* tr->start_time + g_config.transaction_max_ns
EndTimeDefault(start, max_ns) == (start + max_ns) % U64

\* a multi-record deadline that falls back on g_config.transaction_max_ns
MultiRecordEndTime_WithDefault(t, m) ==
    IF m.ttl /= 0 THEN EndTimeFromTtl(t.start_time, m.ttl)
    ELSE EndTimeDefault(t.start_time, transaction_max_ns)

\* end_time of a multi-record transaction: from the TTL if given, no default
MultiRecordEndTime(t, m) ==
    IF m.ttl /= 0 THEN EndTimeFromTtl(t.start_time, m.ttl) ELSE t.end_time

\* end_time of a single-record transaction: from the TTL, else the default
SingleRecordEndTime(t, m, max_ns) ==
    IF m.ttl /= 0 THEN EndTimeFromTtl(t.start_time, m.ttl)
    ELSE EndTimeDefault(t.start_time, max_ns)

\* a deadline check that never fires
TimedOut_Never(clock, end_time) == FALSE

\* cf_getns() > tr->end_time
TimedOut(clock, end_time) == clock > end_time

\* an upgrade that wants more than one duplicate
UpgradeToWrite_MoreThanOne(r, n_dupl) == r = 0 /\ n_dupl > 1

\* rv == 0 && tr->rsv.n_dupl > 0
UpgradeToWrite(r, n_dupl) == r = 0 /\ n_dupl > 0

\* a choice that looks at the sub-class before it looks at the write bit
Executor_NoWriteGate(w, del, origin, udf) ==
    IF del THEN "as_delete_start"
    ELSE IF origin = FROM_IUDF \/ udf THEN "as_udf_start"
    ELSE IF w THEN "as_write_start"
    ELSE "as_read_start"

\* the executor started on reservation success
Executor(w, del, origin, udf) ==
    IF w
    THEN IF del THEN "as_delete_start"
         ELSE IF origin = FROM_IUDF \/ udf THEN "as_udf_start"
         ELSE "as_write_start"
    ELSE "as_read_start"

\* a status switch whose WAITING case forgets the release
StatusReleasesRsv_NoWaiting(st) == st \in {TRANS_DONE_ERROR, TRANS_DONE_SUCCESS}

\* the status switch: does the dispatcher release the reservation
StatusReleasesRsv(st) == st \in {TRANS_DONE_ERROR, TRANS_DONE_SUCCESS, TRANS_WAITING}

\* a status switch whose WAITING case forgets free_msgp = false
StatusKeepsMsg_NoWaiting(st) == st = TRANS_IN_PROGRESS

\* the status switch: does the dispatcher clear free_msgp
StatusKeepsMsg(st) == st \in {TRANS_IN_PROGRESS, TRANS_WAITING}

\* a Cleanup that forgets that a batch's message is shared
FreeAtCleanup_AnyOrigin(f, origin) == f

\* Cleanup: free_msgp && tr->origin != FROM_BATCH
FreeAtCleanup(f, origin) == f /\ origin /= FROM_BATCH

\* ------------------------------------------------------------------------
\* Contracts of the collaborators
\* ------------------------------------------------------------------------

\* "Done, response already sent": an executor that returns DONE_* has replied
ExecutorReplied(st) == st \in {TRANS_DONE_ERROR, TRANS_DONE_SUCCESS}

\* who holds the message after the executor returned: the rw_request when
\* IN_PROGRESS, the re-queue path when WAITING
ExecutorHolds(st) ==
    IF st = TRANS_IN_PROGRESS THEN "rw_request"
    ELSE IF st = TRANS_WAITING THEN "requeue"
    ELSE "none"

\* a scan or query that returns 0 took the transaction and its message over
MultiRecTakesOver(r) == r = 0

\* ------------------------------------------------------------------------
\* process_transaction, step by step
\* ------------------------------------------------------------------------

\* the positions from which process_transaction leaves: Cleanup and the return
StageAfter(st, next) == IF next \in {"cleanup", "done"} THEN st ELSE next

\* as_transaction_error(tr, ns, code)
Reply(code) == Ev("as_transaction_error", code)

\* as_multi_rec_transaction_error(tr, code)
MultiReply(code) == Ev("as_multi_rec_transaction_error", code)

\* the result of a security check: OK or one of the failure codes
SecurityResults == {"OK"} \cup SecurityFailCodes

NoRsv == [mode |-> "none", n_dupl |-> 0]

\* proto.type == PROTO_TYPE_INTERNAL_XDR: as_xdr_handle_txn(tr); return
XdrHandle ==
    /\ pc = "entry"
    /\ msg.xdr
    /\ log' = Append(log, Ev("as_xdr_handle_txn", ""))
    /\ handed' = "xdr"
    /\ pc' = "done"
    /\ UNCHANGED <<tr, msg, transaction_max_ns, now, free_msgp, rv, dest,
                   partition_cluster_key, rsv, status>>
    /\ stage' = StageAfter(stage, pc')
    /\ UNCHANGED <<queueVars, aggrVars>>

\* as_transaction_init_body(tr)
InitBody ==
    /\ pc = "entry"
    /\ ~msg.xdr
    /\ pc' = "auth"
    /\ UNCHANGED <<tr, msg, transaction_max_ns, now, free_msgp, rv, dest,
                   partition_cluster_key, rsv, status, handed, log>>
    /\ stage' = StageAfter(stage, pc')
    /\ UNCHANGED <<queueVars, aggrVars>>

\* Check that the socket is authenticated (client origin only)
Authenticate ==
    /\ pc = "auth"
    /\ IF tr.origin = FROM_CLIENT
       THEN \E result \in SecurityResults :
              IF result /= "OK"
              THEN /\ log' = log \o <<Ev("as_security_check", result), Reply(result)>>
                   /\ pc' = "cleanup"
              ELSE /\ log' = Append(log, Ev("as_security_check", result))
                   /\ pc' = "namespace"
       ELSE /\ log' = log
            /\ pc' = "namespace"
    /\ UNCHANGED <<tr, msg, transaction_max_ns, now, free_msgp, rv, dest,
                   partition_cluster_key, rsv, status, handed>>
    /\ stage' = StageAfter(stage, pc')
    /\ UNCHANGED <<queueVars, aggrVars>>

\* a namespace check that forgets the lookup: only a missing field fails
NamespaceMissing_FieldOnly(m) == m.ns = "absent"

\* ! nf (no namespace field) or ! ns (as_namespace_get_bymsgfield found none)
NamespaceMissing(m) == m.ns /= "known"

\* All transactions must have a namespace
ResolveNamespace ==
    /\ pc = "namespace"
    /\ IF NamespaceMissing(msg)
       THEN /\ log' = Append(log, Reply("FAIL_NAMESPACE"))
            /\ pc' = "cleanup"
       ELSE /\ log' = log
            /\ pc' = "balance"
    /\ UNCHANGED <<tr, msg, transaction_max_ns, now, free_msgp, rv, dest,
                   partition_cluster_key, rsv, status, handed>>
    /\ stage' = StageAfter(stage, pc')
    /\ UNCHANGED <<queueVars, aggrVars>>

\* Have we finished the very first partition balance?
BalanceGate ==
    /\ pc = "balance"
    /\ \E resolved \in BOOLEAN :
         IF ~resolved /\ ~is_nsup_delete(tr)
         THEN /\ log' = Append(log, Reply("FAIL_UNAVAILABLE"))
              /\ pc' = "cleanup"
         ELSE /\ log' = log
              /\ pc' = IF is_multi_record(msg) THEN "multi" ELSE "single"
    /\ UNCHANGED <<tr, msg, transaction_max_ns, now, free_msgp, rv, dest,
                   partition_cluster_key, rsv, status, handed>>
    /\ stage' = StageAfter(stage, pc')
    /\ UNCHANGED <<queueVars, aggrVars>>

\* Multi-record transaction: end_time from the message TTL, if it gives one
MultiRecordDeadline ==
    /\ pc = "multi"
    /\ tr' = [tr EXCEPT !.end_time = MultiRecordEndTime(tr, msg)]
    /\ pc' = "multi_dispatch"
    /\ UNCHANGED <<msg, transaction_max_ns, now, free_msgp, rv, dest,
                   partition_cluster_key, rsv, status, handed, log>>
    /\ stage' = StageAfter(stage, pc')
    /\ UNCHANGED <<queueVars, aggrVars>>

\* as_security_check_data_op(tr, ns, perm) of a multi-record transaction
\* failed with `result': the error goes out, then Cleanup
MultiRecDenied(perm, result) ==
    /\ result /= "OK"
    /\ tr' = [tr EXCEPT !.result_code = result]
    /\ log' = log \o <<Ev("as_security_check_data_op", perm), MultiReply(result)>>
    /\ pc' = "cleanup"
    /\ UNCHANGED <<free_msgp, handed>>

\* Old batch: as_batch_direct_queue_task(tr, ns)
BatchDirect ==
    /\ pc = "multi_dispatch"
    /\ msg.class = "batch_direct"
    /\ \E result \in SecurityResults :
         \/ MultiRecDenied("PERM_READ", result)
         \/ /\ result = "OK"
            /\ \E r \in {"OK"} \cup MultiRecFailCodes :
                 /\ log' = log \o <<Ev("as_security_check_data_op", "PERM_READ"),
                                    Ev("as_batch_direct_queue_task", "")>>
                            \o (IF r /= "OK" THEN <<MultiReply(r)>> ELSE << >>)
                 /\ pc' = "cleanup"
                 /\ UNCHANGED <<tr, free_msgp, handed>>
    /\ UNCHANGED <<msg, transaction_max_ns, now, rv, dest,
                   partition_cluster_key, rsv, status>>
    /\ stage' = StageAfter(stage, pc')
    /\ UNCHANGED <<queueVars, aggrVars>>

\* Query: as_query(tr, ns)
Query ==
    /\ pc = "multi_dispatch"
    /\ msg.class = "query"
    /\ LET perm == IF msg.udf THEN "PERM_UDF_QUERY" ELSE "PERM_QUERY" IN
       \E result \in SecurityResults :
         \/ MultiRecDenied(perm, result)
         \/ /\ result = "OK"
            /\ \E r \in {"OK"} \cup MultiRecFailCodes :
                 LET taken == MultiRecTakesOver(IF r = "OK" THEN 0 ELSE -1) IN
                 /\ log' = log \o <<Ev("as_security_check_data_op", perm),
                                    Ev("as_query", "")>>
                            \o (IF r /= "OK" THEN <<MultiReply(r)>> ELSE << >>)
                 /\ tr' = IF r /= "OK" THEN [tr EXCEPT !.result_code = r] ELSE tr
                 /\ free_msgp' = IF r = "OK" THEN FALSE ELSE free_msgp
                 /\ handed' = IF taken THEN "query" ELSE handed
                 /\ pc' = "cleanup"
    /\ UNCHANGED <<msg, transaction_max_ns, now, rv, dest,
                   partition_cluster_key, rsv, status>>
    /\ stage' = StageAfter(stage, pc')
    /\ UNCHANGED <<queueVars, aggrVars>>

\* Scan: as_scan(tr, ns)
Scan ==
    /\ pc = "multi_dispatch"
    /\ msg.class = "scan"
    /\ LET perm == IF msg.udf THEN "PERM_UDF_SCAN" ELSE "PERM_SCAN" IN
       \E result \in SecurityResults :
         \/ MultiRecDenied(perm, result)
         \/ /\ result = "OK"
            /\ \E r \in {"OK"} \cup MultiRecFailCodes :
                 LET taken == MultiRecTakesOver(IF r = "OK" THEN 0 ELSE -1) IN
                 /\ log' = log \o <<Ev("as_security_check_data_op", perm),
                                    Ev("as_scan", "")>>
                            \o (IF r /= "OK" THEN <<MultiReply(r)>> ELSE << >>)
                 /\ free_msgp' = IF r = "OK" THEN FALSE ELSE free_msgp
                 /\ handed' = IF taken THEN "scan" ELSE handed
                 /\ pc' = "cleanup"
                 /\ UNCHANGED tr
    /\ UNCHANGED <<msg, transaction_max_ns, now, rv, dest,
                   partition_cluster_key, rsv, status>>
    /\ stage' = StageAfter(stage, pc')
    /\ UNCHANGED <<queueVars, aggrVars>>

\* Single-record transaction: end_time, then "Did the transaction time out
\* while on the queue?"
SingleRecordDeadline ==
    /\ pc = "single"
    /\ LET end == SingleRecordEndTime(tr, msg, transaction_max_ns) IN
       /\ tr' = [tr EXCEPT !.end_time = end]
       /\ IF TimedOut(now, end)
          THEN /\ log' = Append(log, Reply("FAIL_TIMEOUT"))
               /\ pc' = "cleanup"
          ELSE /\ log' = log
               /\ pc' = "digest"
    /\ UNCHANGED <<msg, transaction_max_ns, now, free_msgp, rv, dest,
                   partition_cluster_key, rsv, status, handed>>
    /\ stage' = StageAfter(stage, pc')
    /\ UNCHANGED <<queueVars, aggrVars>>

\* the digest field must have sizeof(cf_digest) bytes
DigestSizeWrong(m) == m.class = "digest_bad"

\* All single-record transactions must have a digest, or a key to compute it
\* from; batch sub-transactions already have it in tr
Digest ==
    /\ pc = "digest"
    /\ IF DigestSizeWrong(msg)
       THEN /\ log' = Append(log, Reply("FAIL_PARAMETER"))
            /\ pc' = "cleanup"
       ELSE /\ log' = log
            /\ pc' = "mode"
    /\ UNCHANGED <<tr, msg, transaction_max_ns, now, free_msgp, rv, dest,
                   partition_cluster_key, rsv, status, handed>>
    /\ stage' = StageAfter(stage, pc')
    /\ UNCHANGED <<queueVars, aggrVars>>

\* a shipped-op check that lets every shipped-op through
ShippedOpNotWrite_Never(w) == FALSE

\* if (! is_write): a shipped-op that is not a write is unexpected
ShippedOpNotWrite(w) == ~w

\* what the reservation gateway can return: rv (0 or -1), the node and the
\* cluster key.  A reservation that is made names this node (1) - or, by a
\* programmer error, none (0) - and carries its duplicate count; one that is
\* refused names the node to proxy to and the cluster key to proxy under.
ReserveResults ==
    [rv : {0}, n_dupl : 0..MaxDupl, dest : {0, 1}, key : {1}]
    \cup [rv : {-1}, n_dupl : {0}, dest : 0..MaxNode, key : 1..MaxKey]

\* tr->rsv after a reservation call of `mode' returned o
RsvAfter(mode, o) == IF o.rv = 0 THEN [mode |-> mode, n_dupl |-> o.n_dupl] ELSE NoRsv

\* the logged reservation call
EvReserve(op, o) ==
    [op |-> op, code |-> IF o.rv = 0 THEN "ok" ELSE "failed", dest |-> o.dest,
     key |-> o.key, n_dupl |-> o.n_dupl]

\* the logged as_partition_reserve_migrate call: it returns no cluster key
EvMigrate(o) == [EvReserve("as_partition_reserve_migrate", o) EXCEPT !.key = 0]

\* should_security_check_data_op(tr) && ! as_security_check_data_op(tr, ns, perm):
\* the check's calls, and whether the transaction was denied
DataOpDenied(perm, result) ==
    /\ should_security_check_data_op(tr)
    /\ result /= "OK"
    /\ tr' = [tr EXCEPT !.result_code = result]
    /\ log' = log \o <<Ev("as_security_check_data_op", perm), Reply(result)>>
    /\ pc' = "cleanup"
    /\ UNCHANGED <<rv, dest, partition_cluster_key, rsv>>

\* the calls of a data-op check that let the transaction through
DataOpCalls(perm) ==
    IF should_security_check_data_op(tr)
    THEN <<Ev("as_security_check_data_op", perm)>> ELSE << >>

\* FROM_FLAG_SHIPPED_OP: a migrate reservation, which must have no duplicates
ShippedOp ==
    /\ pc = "mode"
    /\ tr.shipped_op
    /\ IF ShippedOpNotWrite(is_write)
       THEN /\ log' = Append(log, Reply("FAIL_UNKNOWN"))
            /\ pc' = "cleanup"
            /\ UNCHANGED <<rv, dest, rsv>>
       ELSE \E o \in ReserveResults :
              /\ o.rv = 0
              /\ o.key = 1
              /\ dest' = o.dest
              /\ IF o.n_dupl /= 0
                 THEN /\ log' = log \o <<EvMigrate(o),
                                         Ev("as_partition_release", ""),
                                         Reply("FAIL_UNKNOWN")>>
                      /\ rsv' = NoRsv
                      /\ pc' = "cleanup"
                      /\ UNCHANGED rv
                 ELSE /\ log' = Append(log, EvMigrate(o))
                      /\ rsv' = RsvAfter("migrate", o)
                      /\ rv' = 0
                      /\ pc' = "destcheck"
    /\ UNCHANGED <<tr, msg, transaction_max_ns, now, free_msgp,
                   partition_cluster_key, status, handed>>
    /\ stage' = StageAfter(stage, pc')
    /\ UNCHANGED <<queueVars, aggrVars>>

\* is_write: as_partition_reserve_write
WriteReserve ==
    /\ pc = "mode"
    /\ ~tr.shipped_op
    /\ is_write
    /\ \E result \in SecurityResults :
         \/ DataOpDenied("PERM_WRITE", result)
         \/ /\ should_security_check_data_op(tr) => result = "OK"
            /\ \E o \in ReserveResults :
                 /\ log' = log \o DataOpCalls("PERM_WRITE")
                               \o <<EvReserve("as_partition_reserve_write", o)>>
                 /\ rv' = o.rv
                 /\ dest' = o.dest
                 /\ partition_cluster_key' = o.key
                 /\ rsv' = RsvAfter("write", o)
                 /\ pc' = "destcheck"
                 /\ UNCHANGED tr
    /\ UNCHANGED <<msg, transaction_max_ns, now, free_msgp, status, handed>>
    /\ stage' = StageAfter(stage, pc')
    /\ UNCHANGED <<queueVars, aggrVars>>

\* is_read: as_partition_reserve_read
ReadReserve ==
    /\ pc = "mode"
    /\ ~tr.shipped_op
    /\ ~is_write
    /\ is_read
    /\ \E result \in SecurityResults :
         \/ DataOpDenied("PERM_READ", result)
         \/ /\ should_security_check_data_op(tr) => result = "OK"
            /\ \E o \in ReserveResults :
                 /\ log' = log \o DataOpCalls("PERM_READ")
                               \o <<EvReserve("as_partition_reserve_read", o)>>
                 /\ rv' = o.rv
                 /\ dest' = o.dest
                 /\ partition_cluster_key' = o.key
                 /\ rsv' = RsvAfter("read", o)
                 /\ pc' = IF UpgradeToWrite(o.rv, o.n_dupl) THEN "upgrade" ELSE "destcheck"
                 /\ UNCHANGED tr
    /\ UNCHANGED <<msg, transaction_max_ns, now, free_msgp, status, handed>>
    /\ stage' = StageAfter(stage, pc')
    /\ UNCHANGED <<queueVars, aggrVars>>

\* Upgrade to a write reservation
UpgradeReserve ==
    /\ pc = "upgrade"
    /\ \E o \in ReserveResults :
         /\ log' = log \o <<Ev("as_partition_release", ""),
                            EvReserve("as_partition_reserve_write", o)>>
         /\ rv' = o.rv
         /\ dest' = o.dest
         /\ partition_cluster_key' = o.key
         /\ rsv' = RsvAfter("write", o)
         /\ pc' = "destcheck"
    /\ UNCHANGED <<tr, msg, transaction_max_ns, now, free_msgp, status, handed>>
    /\ stage' = StageAfter(stage, pc')
    /\ UNCHANGED <<queueVars, aggrVars>>

\* transaction is neither read nor write
NeitherReadNorWrite ==
    /\ pc = "mode"
    /\ ~tr.shipped_op
    /\ ~is_write
    /\ ~is_read
    /\ log' = Append(log, Reply("FAIL_PARAMETER"))
    /\ pc' = "cleanup"
    /\ UNCHANGED <<tr, msg, transaction_max_ns, now, free_msgp, rv, dest,
                   partition_cluster_key, rsv, status, handed>>
    /\ stage' = StageAfter(stage, pc')
    /\ UNCHANGED <<queueVars, aggrVars>>

\* a destination check that lets every node through
InvalidDestination_Never(d) == FALSE

\* dest == 0: "invalid destination while reserving partition"
InvalidDestination(d) == d = 0

\* if (dest == 0) cf_crash(...)
DestCheck ==
    /\ pc = "destcheck"
    /\ pc' = IF InvalidDestination(dest) THEN "crashed"
             ELSE IF rv = 0 THEN "reserved" ELSE "not_reserved"
    /\ UNCHANGED <<tr, msg, transaction_max_ns, now, free_msgp, rv, dest,
                   partition_cluster_key, rsv, status, handed, log>>
    /\ stage' = StageAfter(stage, pc')
    /\ UNCHANGED <<queueVars, aggrVars>>

\* <><><><><><>  Reservation Succeeded  <><><><><><>
\* start the executor and act on the status it returns
ExecutorStart ==
    /\ pc = "reserved"
    /\ \E st \in Statuses :
         /\ status' = st
         /\ log' = log \o <<Ev(Executor(is_write, msg.delete, tr.origin, msg.udf), st)>>
                       \o (IF ExecutorReplied(st) THEN <<Ev("executor_response", "")>> ELSE << >>)
                       \o (IF StatusReleasesRsv(st)
                           THEN <<Ev("as_partition_release", "")>> ELSE << >>)
         /\ rsv' = IF StatusReleasesRsv(st) THEN NoRsv ELSE rsv
         /\ free_msgp' = IF StatusKeepsMsg(st) THEN FALSE ELSE free_msgp
         /\ handed' = ExecutorHolds(st)
    /\ pc' = "cleanup"
    /\ UNCHANGED <<tr, msg, transaction_max_ns, now, rv, dest, partition_cluster_key>>
    /\ stage' = StageAfter(stage, pc')
    /\ UNCHANGED <<queueVars, aggrVars>>

\* the origins whose failed reservation is diverted to the proxy fabric
DivertsToProxy(origin) == origin = FROM_CLIENT \/ origin = FROM_BATCH

\* a divert branch that replies FAIL_UNKNOWN even when the divert worked
ProxyDivertFailed_Always(diverted) == TRUE

\* a divert branch that never replies
ProxyDivertFailed_Never(diverted) == FALSE

\* if (! as_proxy_divert(dest, tr, ns, partition_cluster_key))
ProxyDivertFailed(diverted) == ~diverted

\* who holds the message after a successful as_proxy_divert: the fabric for
\* a client's, nobody new for a batch's (it is shared)
ProxyHolds(origin) == IF origin = FROM_CLIENT THEN "fabric" ELSE "none"

\* <><><><><><>  Reservation Failed  <><><><><><>
\* FROM_CLIENT, FROM_BATCH: as_proxy_divert(dest, tr, ns, partition_cluster_key)
ProxyDivert ==
    /\ pc = "not_reserved"
    /\ DivertsToProxy(tr.origin)
    /\ \E diverted \in BOOLEAN :
         IF ProxyDivertFailed(diverted)
         THEN /\ log' = log \o <<EvProxy(dest, partition_cluster_key, diverted),
                                 Reply("FAIL_UNKNOWN")>>
              /\ UNCHANGED <<free_msgp, handed>>
         ELSE /\ log' = Append(log, EvProxy(dest, partition_cluster_key, diverted))
              /\ free_msgp' = FALSE
              /\ handed' = IF diverted THEN ProxyHolds(tr.origin) ELSE handed
    /\ pc' = "cleanup"
    /\ UNCHANGED <<tr, msg, transaction_max_ns, now, rv, dest,
                   partition_cluster_key, rsv, status>>
    /\ stage' = StageAfter(stage, pc')
    /\ UNCHANGED <<queueVars, aggrVars>>

\* FROM_PROXY: as_proxy_return_to_sender(tr, ns)
ReturnToSender ==
    /\ pc = "not_reserved"
    /\ tr.origin = FROM_PROXY
    /\ log' = Append(log, Ev("as_proxy_return_to_sender", ""))
    /\ pc' = "cleanup"
    /\ UNCHANGED <<tr, msg, transaction_max_ns, now, free_msgp, rv, dest,
                   partition_cluster_key, rsv, status, handed>>
    /\ stage' = StageAfter(stage, pc')
    /\ UNCHANGED <<queueVars, aggrVars>>

\* FROM_IUDF: tr->from.iudf_orig->cb(udata, AS_PROTO_RESULT_FAIL_UNKNOWN)
IudfCallback ==
    /\ pc = "not_reserved"
    /\ tr.origin = FROM_IUDF
    /\ log' = Append(log, Ev("iudf_orig_cb", "FAIL_UNKNOWN"))
    /\ pc' = "cleanup"
    /\ UNCHANGED <<tr, msg, transaction_max_ns, now, free_msgp, rv, dest,
                   partition_cluster_key, rsv, status, handed>>
    /\ stage' = StageAfter(stage, pc')
    /\ UNCHANGED <<queueVars, aggrVars>>

\* FROM_NSUP: break
NsupDrop ==
    /\ pc = "not_reserved"
    /\ tr.origin = FROM_NSUP
    /\ pc' = "cleanup"
    /\ UNCHANGED <<tr, msg, transaction_max_ns, now, free_msgp, rv, dest,
                   partition_cluster_key, rsv, status, handed, log>>
    /\ stage' = StageAfter(stage, pc')
    /\ UNCHANGED <<queueVars, aggrVars>>

\* Cleanup: if (free_msgp && tr->origin != FROM_BATCH) cf_free(msgp)
Cleanup ==
    /\ pc = "cleanup"
    /\ log' = IF FreeAtCleanup(free_msgp, tr.origin)
              THEN Append(log, Ev("cf_free", "")) ELSE log
    /\ pc' = "done"
    /\ UNCHANGED <<tr, msg, transaction_max_ns, now, free_msgp, rv, dest,
                   partition_cluster_key, rsv, status, handed>>
    /\ stage' = StageAfter(stage, pc')
    /\ UNCHANGED <<queueVars, aggrVars>>

Next ==
    \/ XdrHandle
    \/ InitBody
    \/ Authenticate
    \/ ResolveNamespace
    \/ BalanceGate
    \/ MultiRecordDeadline
    \/ BatchDirect
    \/ Query
    \/ Scan
    \/ SingleRecordDeadline
    \/ Digest
    \/ ShippedOp
    \/ WriteReserve
    \/ ReadReserve
    \/ UpgradeReserve
    \/ NeitherReadNorWrite
    \/ DestCheck
    \/ ExecutorStart
    \/ ProxyDivert
    \/ ReturnToSender
    \/ IudfCallback
    \/ NsupDrop
    \/ Cleanup

Spec == Init /\ [][Next]_vars

\* ------------------------------------------------------------------------
\* What the log says
\* ------------------------------------------------------------------------

ReserveOps == {"as_partition_reserve_read", "as_partition_reserve_write",
               "as_partition_reserve_migrate"}

ExecutorOps == {"as_delete_start", "as_udf_start", "as_write_start", "as_read_start"}

\* cf_free(msgp) calls
Frees == Count({"cf_free"})

\* reservations made, and as_partition_release calls
Acquired == CountCode(ReserveOps, "ok")
Released == Count({"as_partition_release"})
Held == Acquired - Released

\* executors started
ExecutorStarts == Count(ExecutorOps)

\* process_transaction has returned
Returned == pc = "done"

\* replies: error replies of the dispatcher and responses of an executor
ReplyOps == {"as_transaction_error", "as_multi_rec_transaction_error", "executor_response"}
Replies == Count(ReplyOps)

\* error replies of the dispatcher that carry the code c
ErrorReplies(c) == CountCode({"as_transaction_error"}, c)

\* data-op permission checks
DataOpChecks == Count({"as_security_check_data_op"})

\* reservation calls, made or refused
ReserveCalls == Count(ReserveOps)

\* the reservation was refused (the last reservation call failed)
Refused == CountCode(ReserveOps, "failed")

\* the message is an ordinary one (not internal XDR) of a single-record transaction
SingleRecord == ~msg.xdr /\ ~is_multi_record(msg)

\* 1 if b, else 0
One(b) == IF b THEN 1 ELSE 0

\* ------------------------------------------------------------------------
\* C1
\* ------------------------------------------------------------------------

\* C1: the dispatcher calls cf_free(msgp) at most once, and only as the last
\* thing it does (at Cleanup); it never frees a buffer it has handed over
\* (XDR handler, scan/query that returned 0, executor IN_PROGRESS or WAITING,
\* successful proxy divert); and when it returns, a buffer that is not a
\* batch's shared one has either been freed by it, once, or been handed over
\* to exactly one collaborator - never both, never neither.
C1_MsgFreedExactlyOnce ==
    /\ Frees <= 1
    /\ Frees = 1 => (Returned /\ log[Len(log)].op = "cf_free")
    /\ handed /= "none" => Frees = 0
    /\ (Returned /\ tr.origin /= FROM_BATCH) => ((Frees = 1) <=> (handed = "none"))

\* an executor finished the transaction and the dispatcher freed the message
C1_Witness ==
    /\ Returned
    /\ status = TRANS_DONE_SUCCESS
    /\ Frees = 1
    /\ handed = "none"

\* ------------------------------------------------------------------------
\* C2
\* ------------------------------------------------------------------------

\* C2: at every point of process_transaction the releases never exceed the
\* reservations made and at most one reservation is held (no release of a
\* reservation that was not acquired, no double release); when it returns,
\* every reservation made has been released exactly once by the dispatcher,
\* except the one held by an executor that returned IN_PROGRESS, which the
\* dispatcher does not release.
C2_ReservationReleasedOnce ==
    /\ Held \in {0, 1}
    /\ (Held = 1) <=> (rsv.mode /= "none")
    /\ Returned => (Held = 1 <=> status = TRANS_IN_PROGRESS)

\* a read reservation upgraded to a write reservation, both released
C2_Witness ==
    /\ Returned
    /\ Acquired = 2
    /\ Released = 2
    /\ status = TRANS_WAITING

\* ------------------------------------------------------------------------
\* C3
\* ------------------------------------------------------------------------

\* C3, as stated: when process_transaction returns from a single-record
\* transaction, either exactly one reply was sent (an error reply of the
\* dispatcher or the response of an executor that returned DONE_*) or the
\* executor returned IN_PROGRESS; never two replies, never neither.
C3_Original ==
    (Returned /\ SingleRecord) =>
        /\ Replies <= 1
        /\ (Replies = 1) /= (status = TRANS_IN_PROGRESS)

\* the reservation-failure branch of an expiration-origin transaction: no reply
SilentDrop == tr.origin = FROM_NSUP /\ Refused = 1 /\ stage = "not_reserved"

\* C3, amended: when process_transaction returns from a single-record
\* transaction, at most one reply was sent and exactly one of these happened:
\* one reply was sent; the executor returned IN_PROGRESS or WAITING and keeps
\* the transaction; the proxy fabric took the transaction (as_proxy_divert
\* succeeded); it was returned to its proxy sender; its internal-udf callback
\* was invoked; it was an expiration-origin transaction whose reservation was
\* refused (silent drop).
C3_ReplyOrHandOver ==
    (Returned /\ SingleRecord) =>
        /\ Replies <= 1
        /\ Replies
           + One(status \in {TRANS_IN_PROGRESS, TRANS_WAITING})
           + CountCode({"as_proxy_divert"}, "ok")
           + Count({"as_proxy_return_to_sender"})
           + Count({"iudf_orig_cb"})
           + One(SilentDrop) = 1

\* a transaction the executor will re-queue: no reply, not IN_PROGRESS
C3_Witness ==
    /\ Returned
    /\ SingleRecord
    /\ status = TRANS_WAITING
    /\ Replies = 0

\* ------------------------------------------------------------------------
\* C4
\* ------------------------------------------------------------------------

\* C4: for a transaction whose origin is batch the dispatcher never calls
\* cf_free(msgp), whatever path it takes.
C4_BatchNeverFreed == tr.origin = FROM_BATCH => Frees = 0

\* a batch transaction that ends with free_msgp still set, after an executor
\* finished it
C4_Witness ==
    /\ Returned
    /\ tr.origin = FROM_BATCH
    /\ free_msgp
    /\ status = TRANS_DONE_ERROR
    /\ Frees = 0

\* ------------------------------------------------------------------------
\* C5
\* ------------------------------------------------------------------------

\* the i-th logged call is a read reservation that was made with duplicates
ReadWithDuplicatesAt(i) ==
    /\ log[i].op = "as_partition_reserve_read"
    /\ log[i].code = "ok"
    /\ log[i].n_dupl > 0

\* C5: once a read transaction's read reservation has been made with
\* n_dupl > 0, the next two calls of the dispatcher are one release and one
\* write reservation.  If the write reservation is made and the dispatcher
\* returns, the read executor was started next, exactly once, and the write
\* reservation was released once more afterwards unless the status was
\* IN_PROGRESS.  If the write reservation is refused, no reservation is held,
\* no executor is started, and the dispatcher returns through the
\* reservation-failure branch.
C5_ReadUpgrade ==
    \A i \in 1..Len(log) :
        ReadWithDuplicatesAt(i) =>
            /\ msg.read /\ ~msg.write /\ ~tr.shipped_op
            /\ Count({"as_partition_reserve_read"}) = 1
            /\ pc = "upgrade" => (i = Len(log) /\ Released = 0)
            /\ pc /= "upgrade" =>
                /\ Len(log) >= i + 2
                /\ log[i + 1].op = "as_partition_release"
                /\ log[i + 2].op = "as_partition_reserve_write"
                /\ ReserveCalls = 2
                /\ (log[i + 2].code = "ok" /\ Returned) =>
                      /\ Len(log) >= i + 3
                      /\ log[i + 3].op = "as_read_start"
                      /\ ExecutorStarts = 1
                      /\ Released = IF status = TRANS_IN_PROGRESS THEN 1 ELSE 2
                      /\ Held = IF status = TRANS_IN_PROGRESS THEN 1 ELSE 0
                /\ log[i + 2].code = "failed" =>
                      /\ Held = 0
                      /\ rsv.mode = "none"
                      /\ Released = 1
                      /\ ExecutorStarts = 0
                      /\ Returned => stage = "not_reserved"

\* a read that was upgraded, served by the read executor and released twice
C5_Witness ==
    /\ Returned
    /\ \E i \in 1..Len(log) : ReadWithDuplicatesAt(i) /\ log[i + 2].code = "ok"
    /\ status = TRANS_DONE_SUCCESS
    /\ Count({"as_read_start"}) = 1
    /\ Released = 2

\* ------------------------------------------------------------------------
\* C6
\* ------------------------------------------------------------------------

\* the refused reservation call, and the as_proxy_divert call
RefusedCall == log[CHOOSE i \in 1..Len(log) : log[i].op \in ReserveOps /\ log[i].code = "failed"]
DivertCall == log[CHOOSE i \in 1..Len(log) : log[i].op = "as_proxy_divert"]

\* C6: when the reservation was refused and the dispatcher returns, no
\* executor was started and the dispatcher acted once, by origin:
\* client/batch - one as_proxy_divert with the node and cluster key the
\* refused reservation returned; if it diverted, no reply and no free, if it
\* did not, one FAIL_UNKNOWN reply and (client) the message freed;
\* peer-proxy - one return-to-sender, message freed; internal-udf - the
\* callback once, with FAIL_UNKNOWN; expiration - no reply, message freed.
C6_ReservationRefused ==
    (Returned /\ Refused = 1) =>
        LET diverts == Count({"as_proxy_divert"})
            returns == Count({"as_proxy_return_to_sender"})
            callbacks == Count({"iudf_orig_cb"})
        IN  /\ ExecutorStarts = 0
            /\ tr.origin \in {FROM_CLIENT, FROM_BATCH} =>
                  /\ diverts = 1 /\ returns = 0 /\ callbacks = 0
                  /\ DivertCall.dest = RefusedCall.dest
                  /\ DivertCall.key = RefusedCall.key
                  /\ DivertCall.code = "ok" => (Replies = 0 /\ Frees = 0)
                  /\ DivertCall.code = "failed" =>
                        /\ Replies = 1
                        /\ ErrorReplies("FAIL_UNKNOWN") = 1
                        /\ tr.origin = FROM_CLIENT => Frees = 1
            /\ tr.origin = FROM_PROXY =>
                  (diverts = 0 /\ returns = 1 /\ callbacks = 0 /\ Frees = 1)
            /\ tr.origin = FROM_IUDF =>
                  /\ diverts = 0 /\ returns = 0 /\ callbacks = 1
                  /\ CountCode({"iudf_orig_cb"}, "FAIL_UNKNOWN") = 1
            /\ tr.origin = FROM_NSUP =>
                  /\ diverts = 0 /\ returns = 0 /\ callbacks = 0
                  /\ Replies = 0
                  /\ Frees = 1

\* a client's write, refused here and diverted to node 2 under cluster key 2
C6_Witness ==
    /\ Returned
    /\ Refused = 1
    /\ tr.origin = FROM_CLIENT
    /\ CountCode({"as_proxy_divert"}, "ok") = 1
    /\ DivertCall.dest = 2
    /\ DivertCall.key = 2
    /\ Frees = 0

\* ------------------------------------------------------------------------
\* C7
\* ------------------------------------------------------------------------

\* a single-record transaction with the shipped_op flag and no WRITE bit
ShippedNonWrite == SingleRecord /\ tr.shipped_op /\ ~msg.write

\* C7, as stated: a single-record transaction with shipped_op set and the
\* WRITE bit clear yields exactly one FAIL_UNKNOWN reply, no reservation
\* call, no executor, and (non-batch origin) its message is freed.
C7_Original ==
    (Returned /\ ShippedNonWrite) =>
        /\ Replies = 1
        /\ ErrorReplies("FAIL_UNKNOWN") = 1
        /\ ReserveCalls = 0
        /\ ExecutorStarts = 0
        /\ tr.origin /= FROM_BATCH => Frees = 1

\* C7, amended: a single-record transaction with shipped_op set and the
\* WRITE bit clear yields exactly one reply, no reservation call, no
\* executor, and (non-batch origin) its message is freed; the reply is
\* FAIL_UNKNOWN when the transaction gets as far as mode selection, and the
\* error of the earlier check that stopped it otherwise.
C7_ShippedNonWrite ==
    (Returned /\ ShippedNonWrite) =>
        /\ Replies = 1
        /\ Count({"as_transaction_error"}) = 1
        /\ (stage = "mode") <=> (ErrorReplies("FAIL_UNKNOWN") = 1)
        /\ ReserveCalls = 0
        /\ ExecutorStarts = 0
        /\ tr.origin /= FROM_BATCH => Frees = 1

\* a shipped-op read from a peer proxy, rejected at mode selection and freed
C7_Witness ==
    /\ Returned
    /\ ShippedNonWrite
    /\ tr.origin = FROM_PROXY
    /\ stage = "mode"
    /\ ErrorReplies("FAIL_UNKNOWN") = 1
    /\ Frees = 1

\* ------------------------------------------------------------------------
\* C8
\* ------------------------------------------------------------------------

\* the dispatcher has computed a deadline for the transaction
DeadlineComputed ==
    IF is_multi_record(msg)
    THEN stage = "multi_dispatch" /\ msg.ttl /= 0
    ELSE stage \in {"single", "digest", "mode", "upgrade", "destcheck", "reserved",
                    "not_reserved", "crashed"} /\ pc /= "single"

\* C8, as stated: a transaction whose deadline has passed (current time >
\* end_time) yields exactly one FAIL_TIMEOUT reply, with no reservation
\* call, no data-op permission check and no executor.
C8_Original ==
    (Returned /\ ~msg.xdr /\ DeadlineComputed /\ now > tr.end_time) =>
        /\ Replies = 1
        /\ ErrorReplies("FAIL_TIMEOUT") = 1
        /\ ReserveCalls = 0
        /\ DataOpChecks = 0
        /\ ExecutorStarts = 0

\* C8, amended: a single-record transaction whose deadline has passed
\* (current time > end_time) when the dispatcher checks it, right after
\* computing end_time, goes no further: it yields exactly one FAIL_TIMEOUT
\* reply, with no reservation call, no data-op permission check and no
\* executor.  This is the only point at which the dispatcher enforces the
\* deadline: it sends FAIL_TIMEOUT nowhere else, and it does not check the
\* deadline of a multi-record transaction.
C8_DeadlineCheck ==
    /\ (SingleRecord /\ DeadlineComputed /\ now > tr.end_time) =>
          /\ stage = "single"
          /\ pc \in {"cleanup", "done"}
          /\ Replies = 1
          /\ ErrorReplies("FAIL_TIMEOUT") = 1
          /\ ReserveCalls = 0
          /\ DataOpChecks = 0
          /\ ExecutorStarts = 0
    /\ CountCode(ReplyOps, "FAIL_TIMEOUT") >= 1 =>
          /\ SingleRecord
          /\ stage = "single"
          /\ now > tr.end_time
          /\ Replies = 1

\* a transaction with a TTL of 1 ms that waited longer, and timed out
C8_Witness ==
    /\ Returned
    /\ SingleRecord
    /\ msg.ttl = 1
    /\ tr.end_time = tr.start_time + NsPerMs
    /\ now > tr.end_time
    /\ ErrorReplies("FAIL_TIMEOUT") = 1

\* ------------------------------------------------------------------------
\* C9
\* ------------------------------------------------------------------------

\* an ordinary message without a namespace field, or naming an unknown one
NoNamespace == ~msg.xdr /\ msg.ns \in {"absent", "unknown"}

\* C9, as stated: a message lacking a namespace field (or naming an unknown
\* namespace) yields exactly one FAIL_NAMESPACE reply and the buffer is
\* freed, with no data-op permission check, no deadline computation, no
\* reservation call and no executor.
C9_Original ==
    (Returned /\ NoNamespace) =>
        /\ Replies = 1
        /\ ErrorReplies("FAIL_NAMESPACE") = 1
        /\ Frees = 1
        /\ DataOpChecks = 0
        /\ stage \in {"auth", "namespace"}
        /\ tr.end_time \in EndTimesAtEntry
        /\ ReserveCalls = 0
        /\ ExecutorStarts = 0

\* C9, amended: a message lacking a namespace field (or naming an unknown
\* namespace) yields exactly one reply - FAIL_NAMESPACE when the transaction
\* passes the authentication check, the security result when it does not -
\* and the buffer is freed unless the origin is batch; no data-op permission
\* check, no deadline computation, no reservation call and no executor.
C9_NoNamespace ==
    (Returned /\ NoNamespace) =>
        /\ Replies = 1
        /\ Count({"as_transaction_error"}) = 1
        /\ (stage = "namespace") <=> (ErrorReplies("FAIL_NAMESPACE") = 1)
        /\ (stage = "auth") <=> (CountCode({"as_security_check"}, "OK") = 0
                                  /\ tr.origin = FROM_CLIENT)
        /\ Frees = One(tr.origin /= FROM_BATCH)
        /\ DataOpChecks = 0
        /\ stage \in {"auth", "namespace"}
        /\ tr.end_time \in EndTimesAtEntry
        /\ ReserveCalls = 0
        /\ ExecutorStarts = 0

\* an authenticated client names a namespace this node does not have
C9_Witness ==
    /\ Returned
    /\ msg.ns = "unknown"
    /\ ~msg.xdr
    /\ tr.origin = FROM_CLIENT
    /\ ErrorReplies("FAIL_NAMESPACE") = 1
    /\ Frees = 1

\* ------------------------------------------------------------------------
\* C10
\* ------------------------------------------------------------------------

\* C10: the step that computes the deadline of a single-record transaction
\* sets end_time to start_time + transaction_max_ns when transaction_ttl is 0
\* and to start_time + transaction_ttl * 1,000,000 otherwise; the step that
\* computes it for a multi-record transaction sets end_time to start_time +
\* transaction_ttl * 1,000,000 when transaction_ttl is not 0 and leaves it
\* unchanged when it is 0 (sums in uint64_t); no step changes start_time.
C10_Deadline ==
    [][ /\ tr'.start_time = tr.start_time
        /\ pc = "single" =>
              tr'.end_time = IF msg.ttl = 0
                             THEN (tr.start_time + transaction_max_ns) % U64
                             ELSE (tr.start_time + msg.ttl * 1000000) % U64
        /\ pc = "multi" =>
              tr'.end_time = IF msg.ttl = 0
                             THEN tr.end_time
                             ELSE (tr.start_time + msg.ttl * 1000000) % U64
      ]_vars

\* a scan without TTL got past the deadline step with the end_time it came with
C10_Witness ==
    /\ pc = "multi_dispatch"
    /\ msg.class = "scan"
    /\ msg.ttl = 0
    /\ transaction_max_ns /= 0
    /\ tr.end_time = 7

\* ------------------------------------------------------------------------
\* C11
\* ------------------------------------------------------------------------

\* C11: whenever the dispatcher has computed a transaction's deadline,
\* end_time > start_time, for every message TTL and every configured
\* transaction_max_ns (0 included), the sums being taken in uint64_t.
C11_EndAfterStart == DeadlineComputed => tr.end_time > tr.start_time

\* ========================================================================
\* The queue plane: as_tsvc_init and thr_tsvc_enqueue
\* ========================================================================

\* the producer threads that call thr_tsvc_enqueue
Producers == {1, 2}

\* number of transactions each producer enqueues
MaxEnqueues == 1

\* size of the g_transaction_queues array
MAX_TRANSACTION_QUEUES == 128

\* uint32_t arithmetic wraps at 2^32; as for U64 the wrap point is scaled
\* down, to 2^15, which lies above every queue count
U32 == 2^15

\* s_attr.n_devices of a namespace: memory only (0), or that many devices
DeviceCounts == {0, 4, 5, 64}

\* g_config.n_namespaces
NamespaceCounts == {1, 2}

\* g_config.n_transaction_queues as configured (used when not in device mode)
ConfiguredQueues == {1, 3}

\* g_current_q when the producers start: its initial value, or the value
\* that earlier enqueues have brought it to, one short of the wrap
CounterStarts == {0, U32 - 1}

\* ppeek.keyd.digest[8] of the transactions that are enqueued
DigestBytes == {9, 255}

\* the dispatcher while a behaviour follows something else
DispatcherAside ==
    /\ msg = XdrMsg
    /\ tr = [origin |-> FROM_NSUP, shipped_op |-> FALSE, start_time |-> 0,
             end_time |-> 0, result_code |-> "OK"]
    /\ transaction_max_ns = 0
    /\ now = 0
    /\ pc = "aside"
    /\ free_msgp = TRUE
    /\ rv = 0
    /\ dest = 0
    /\ partition_cluster_key = 0
    /\ rsv = NoRsv
    /\ status = "none"
    /\ handed = "none"
    /\ stage = "aside"
    /\ log = << >>

\* thr_tsvc_enqueue calls of each producer while the workers run
MaxPushes == 2

\* the transactions the producers push: the k-th enqueue of producer p
Pushable == [producer : Producers, seq : 1..MaxPushes]

\* no worker has popped or dispatched anything
EmptyWorkerLog ==
    [pops |-> [i \in 0..(MAX_TRANSACTION_QUEUES - 1) |-> << >>],
     calls |-> [t \in Pushable |-> << >>]]

\* a slot of g_transaction_queues that holds no queue (NULL)
NoQueue == [created |-> FALSE, items |-> << >>]

\* a producer thread that is not inside thr_tsvc_enqueue
ProducerIdle(left) ==
    [pc |-> "idle", left |-> left, current_q |-> 0, n_q |-> 0, read |-> FALSE,
     write |-> FALSE,
     ns |-> 0, digest8 |-> 0, pushed |-> 0]

InitTsvc ==
    /\ DispatcherAside
    /\ AggregationAside
    /\ use_queue_per_device \in BOOLEAN
    /\ n_transaction_queues \in ConfiguredQueues
    /\ \E n \in NamespaceCounts : storage_devices \in [1..n -> DeviceCounts]
    /\ namespaces = [i \in 1..Len(storage_devices) |-> [n_devices |-> 0, dev_q_offset |-> 0]]
    /\ g_transaction_queues = [i \in 0..(MAX_TRANSACTION_QUEUES - 1) |-> NoQueue]
    /\ g_current_q \in CounterStarts
    /\ tsvc_pc = "start"
    /\ producers = [p \in Producers |-> ProducerIdle(MaxEnqueues)]
    /\ n_transaction_threads_per_queue = 1
    /\ workers = << >>
    /\ worker_log = EmptyWorkerLog

\* queues a namespace gets: 1 queue per read, 1 queue per write, for each
\* device; one read queue and one write queue when it has no devices
QueuesOfNamespace_OnePerDevice(n_devices) == IF n_devices > 0 THEN n_devices ELSE 2

QueuesOfNamespace(n_devices) == IF n_devices > 0 THEN n_devices * 2 ELSE 2

\* n_queues before namespace i is visited: the sum over the namespaces before it
RECURSIVE QueuesBefore(_, _)
QueuesBefore(devs, i) ==
    IF i <= 1 THEN 0 ELSE QueuesBefore(devs, i - 1) + QueuesOfNamespace(devs[i - 1])

\* a thr_tsvc thread that waits in cf_queue_pop
WorkerWaiting == [pc |-> "pop", tr |-> [producer |-> 0, seq |-> 0]]

\* transaction_thread(i, j): thread j of queue i, for every queue and every
\* j below n_transaction_threads_per_queue
TransactionThreads(n_queues, per_queue) ==
    (0..(n_queues - 1)) \X (0..(per_queue - 1))

\* as_tsvc_init(): each namespace gets n_devices and dev_q_offset, the queue
\* count is checked against MAX_TRANSACTION_QUEUES, the queues are created
\* and the threads that service them are started
as_tsvc_init ==
    /\ tsvc_pc = "start"
    /\ LET n == Len(storage_devices)
           n_queues == QueuesBefore(storage_devices, n + 1)
           created == IF use_queue_per_device THEN n_queues ELSE n_transaction_queues
       IN  /\ namespaces' = [i \in 1..n |->
                                [n_devices |-> storage_devices[i],
                                 dev_q_offset |-> QueuesBefore(storage_devices, i)]]
           /\ IF n_queues > MAX_TRANSACTION_QUEUES
              THEN /\ tsvc_pc' = "crashed"
                   /\ UNCHANGED <<n_transaction_queues, g_transaction_queues, workers>>
              ELSE /\ tsvc_pc' = "running"
                   /\ n_transaction_queues' = created
                   /\ g_transaction_queues' =
                        [i \in 0..(MAX_TRANSACTION_QUEUES - 1) |->
                            IF i < created THEN [created |-> TRUE, items |-> << >>]
                            ELSE NoQueue]
                   /\ workers' = [w \in TransactionThreads(created,
                                                           n_transaction_threads_per_queue)
                                    |-> WorkerWaiting]
    /\ UNCHANGED <<use_queue_per_device, storage_devices, g_current_q, producers,
                   n_transaction_threads_per_queue, worker_log>>
    /\ UNCHANGED <<vars, aggrVars>>

\* the transactions a producer can enqueue, as the router sees them: the
\* namespace named, the READ bit of info1 and byte 8 of the digest; and the
\* WRITE bit of info2, which the router does not look at
Enqueued ==
    [ns : 1..Len(namespaces), read : BOOLEAN, write : BOOLEAN, digest8 : DigestBytes]

\* as_msg_peek(tr, &ppeek): the READ bit, the digest and, of the namespace
\* the message names, n_devices and dev_q_offset as as_tsvc_init set them
as_msg_peek(t) ==
    [info1_read |-> t.read,
     digest8 |-> t.digest8,
     ns_n_devices |-> namespaces[t.ns].n_devices,
     ns_queue_offset |-> namespaces[t.ns].dev_q_offset]

\* a device queue choice that forgets the namespace's offset
DeviceQueue_NoOffset(ppeek) ==
    IF ppeek.ns_n_devices /= 0
    THEN IF ppeek.info1_read
         THEN ppeek.digest8 % ppeek.ns_n_devices
         ELSE (ppeek.digest8 % ppeek.ns_n_devices) + ppeek.ns_n_devices
    ELSE IF ppeek.info1_read THEN 0 ELSE 1

\* queue-per-device mode: the queue of the device the transaction is for
\* (q order: read_dev1, read_dev2, ..., write_dev1, write_dev2, ...), or of
\* the memory-only namespace (q order: read, write)
DeviceQueue(ppeek) ==
    IF ppeek.ns_n_devices /= 0
    THEN IF ppeek.info1_read
         THEN (ppeek.digest8 % ppeek.ns_n_devices) + ppeek.ns_queue_offset
         ELSE (ppeek.digest8 % ppeek.ns_n_devices) + ppeek.ns_queue_offset
              + ppeek.ns_n_devices
    ELSE IF ppeek.info1_read
         THEN ppeek.ns_queue_offset
         ELSE ppeek.ns_queue_offset + 1

\* a round-robin choice that forgets the modulo
RoundRobinQueue_NoModulo(current_q, n_queues) == current_q

\* default mode: (g_current_q++) % g_config.n_transaction_queues
RoundRobinQueue(current_q, n_queues) == current_q % n_queues

\* g_transaction_queues[n_q] is a queue: n_q lies in the array and the slot
\* is not NULL (a slot beyond the array holds no queue of this program)
QueueInitialized(n_q) ==
    /\ n_q \in DOMAIN g_transaction_queues
    /\ g_transaction_queues[n_q].created

\* the end of thr_tsvc_enqueue for producer p, with n_q chosen: crash if
\* the queue is not initialized, else cf_queue_push(q, tr) and return 0
Push(p, n_q, t) ==
    /\ IF QueueInitialized(n_q)
       THEN /\ g_transaction_queues' =
                 [g_transaction_queues EXCEPT
                    ![n_q].items = Append(@, [producer |-> p,
                                              seq |-> producers[p].pushed + 1])]
            /\ tsvc_pc' = tsvc_pc
       ELSE /\ tsvc_pc' = "crashed"
            /\ UNCHANGED g_transaction_queues
    /\ producers' = [producers EXCEPT ![p] =
                        [pc |-> "idle", left |-> @.left - 1, current_q |-> @.current_q,
                         n_q |-> n_q, read |-> t.read, write |-> t.write, ns |-> t.ns,
                         digest8 |-> t.digest8,
                         pushed |-> IF QueueInitialized(n_q) THEN @.pushed + 1
                                    ELSE @.pushed]]

\* thr_tsvc_enqueue(tr) in queue-per-device mode
EnqueueDevice(p) ==
    /\ tsvc_pc = "running"
    /\ use_queue_per_device
    /\ producers[p].pc = "idle"
    /\ producers[p].left > 0
    /\ \E t \in Enqueued : Push(p, DeviceQueue(as_msg_peek(t)), t)
    /\ UNCHANGED <<use_queue_per_device, n_transaction_queues, storage_devices,
                   namespaces, g_current_q, workerVars>>
    /\ UNCHANGED <<vars, aggrVars>>

\* thr_tsvc_enqueue(tr) in default mode, first half of g_current_q++: the
\* counter is read into a register of the producer
RoundRobinRead(p) ==
    /\ tsvc_pc = "running"
    /\ ~use_queue_per_device
    /\ producers[p].pc = "idle"
    /\ producers[p].left > 0
    /\ producers' = [producers EXCEPT ![p].pc = "incr", ![p].current_q = g_current_q]
    /\ UNCHANGED <<use_queue_per_device, n_transaction_queues, storage_devices,
                   namespaces, g_transaction_queues, g_current_q, tsvc_pc, workerVars>>
    /\ UNCHANGED <<vars, aggrVars>>

\* second half of g_current_q++: the register plus one is written back; then
\* the queue is chosen from the value read, and the transaction is pushed
RoundRobinWrite(p) ==
    /\ tsvc_pc = "running"
    /\ producers[p].pc = "incr"
    /\ g_current_q' = (producers[p].current_q + 1) % U32
    /\ Push(p, RoundRobinQueue(producers[p].current_q, n_transaction_queues),
            [read |-> FALSE, write |-> FALSE, ns |-> 0, digest8 |-> 0])
    /\ UNCHANGED <<use_queue_per_device, n_transaction_queues, storage_devices,
                   namespaces, workerVars>>
    /\ UNCHANGED <<vars, aggrVars>>

NextTsvc ==
    \/ as_tsvc_init
    \/ \E p \in Producers : EnqueueDevice(p)
    \/ \E p \in Producers : RoundRobinRead(p)
    \/ \E p \in Producers : RoundRobinWrite(p)

allVars == <<vars, queueVars, aggrVars>>

SpecTsvc == InitTsvc /\ [][NextTsvc]_allVars

\* ------------------------------------------------------------------------
\* Reading the queue plane
\* ------------------------------------------------------------------------

\* producer p has been through thr_tsvc_enqueue; its record holds that call
HasEnqueued(p) == producers[p].left < MaxEnqueues

\* ------------------------------------------------------------------------
\* C12
\* ------------------------------------------------------------------------

\* C12: once as_tsvc_init has run, exactly the slots 0 .. n_transaction_queues
\* - 1 of g_transaction_queues hold a queue, and every thr_tsvc_enqueue call
\* chooses an index n_q in that range, finds a queue there and never reaches
\* its "not initialized" crash - in device mode for every namespace, READ bit
\* and digest byte, in round-robin mode for every counter value, the wrap and
\* two producers incrementing at once included.
C12_QueueIndexInRange ==
    /\ tsvc_pc = "running" =>
          \A i \in DOMAIN g_transaction_queues :
              g_transaction_queues[i].created <=> (i < n_transaction_queues)
    /\ \A p \in Producers :
          HasEnqueued(p) =>
              /\ tsvc_pc = "running"
              /\ producers[p].n_q >= 0
              /\ producers[p].n_q < n_transaction_queues
              /\ QueueInitialized(producers[p].n_q)
              /\ \E k \in 1..Len(g_transaction_queues[producers[p].n_q].items) :
                     g_transaction_queues[producers[p].n_q].items[k].producer = p

\* round-robin over 3 queues: both producers read the counter at its last
\* value before the wrap, both chose queue 1, and the counter wrapped to 0
C12_Witness ==
    /\ ~use_queue_per_device
    /\ n_transaction_queues = 3
    /\ \A p \in Producers :
          /\ HasEnqueued(p)
          /\ producers[p].current_q = U32 - 1
          /\ producers[p].n_q = 1
    /\ g_current_q = 0
    /\ Len(g_transaction_queues[1].items) = 2

\* ------------------------------------------------------------------------
\* C13
\* ------------------------------------------------------------------------

\* C13: in queue-per-device mode a transaction for a namespace with
\* n_devices > 0 goes to index (digest[8] mod n_devices) + dev_q_offset when
\* the router takes it for a read (READ bit of info1 set) and to that value
\* plus n_devices when it takes it for a write (READ bit clear); one for a
\* memory-only namespace goes to dev_q_offset for a read and to
\* dev_q_offset + 1 for a write.
C13_DeviceQueue ==
    \A p \in Producers :
        (HasEnqueued(p) /\ use_queue_per_device) =>
            LET e == producers[p]
                n_devices == storage_devices[e.ns]
                dev_q_offset == namespaces[e.ns].dev_q_offset
            IN  /\ namespaces[e.ns].n_devices = n_devices
                /\ (n_devices > 0 /\ e.read) =>
                      e.n_q = (e.digest8 % n_devices) + dev_q_offset
                /\ (n_devices > 0 /\ ~e.read) =>
                      e.n_q = (e.digest8 % n_devices) + dev_q_offset + n_devices
                /\ (n_devices = 0 /\ e.read) => e.n_q = dev_q_offset
                /\ (n_devices = 0 /\ ~e.read) => e.n_q = dev_q_offset + 1

\* n_devices = 4, dev_q_offset = 10, a write with digest[8] = 9: queue 15
C13_Witness ==
    /\ use_queue_per_device
    /\ \E p \in Producers :
          /\ HasEnqueued(p)
          /\ ~producers[p].read
          /\ producers[p].digest8 = 9
          /\ namespaces[producers[p].ns].n_devices = 4
          /\ namespaces[producers[p].ns].dev_q_offset = 10
          /\ producers[p].n_q = 15

\* ========================================================================
\* The aggregation engine: as_aggr_process and its input stream
\* ========================================================================

\* istream_read calls the scripting runtime makes in one aggregation call
MaxReads == 2

\* passes through the loop of one istream_read call that are followed
MaxLoops == 2

\* #define AS_AGGR_ERR -1
AS_AGGR_ERR == -1

\* what as_module_apply_stream returns: 0, or the runtime's error
RuntimeStatuses == {0, 1}

\* what opening a record leads to: the reserve_partition hook returns NULL
\* ("norsv"); udf_record_open fails ("nolock"); the record opens and
\* pre_check rejects it ("reject"); it opens and passes ("ok")
RecordKinds == {"norsv", "nolock", "reject", "ok"}

\* keys_arr->num of a batch, and the number of batches in ap_recl
BatchSizes == {0, 1, 2}
BatchCounts == {0, 1, 2}

\* the batches: each a sequence of records, a record being its kind
Batches == UNION {[1..n -> RecordKinds] : n \in BatchSizes}

\* a call the engine makes: on the record in slot id = <<batch, offset>>
AEv(op, id, res) == [op |-> op, id |-> id, res |-> res]

NoId == <<0, 0>>

InitAggr ==
    /\ DispatcherAside
    /\ QueuePlaneAside
    /\ \E n \in BatchCounts : record_id_list \in [1..n -> Batches]
    /\ iter = [live |-> FALSE, pos |-> 0]
    /\ keys_arr = 0
    /\ keys_arr_offset = 0
    /\ rec_open = FALSE
    /\ aggr_pc = "start"
    /\ aggr_ret = << >>
    /\ reads = 0
    /\ loops = 0
    /\ aggr_log = << >>

\* cf_ll_getNext(iter): the next batch, or none when the list is exhausted
HasNextBatch(it) == it < Len(record_id_list)

\* get_next(aobj), from the cursor (it, ka, off): whether it returns a
\* digest (non-NULL), and the cursor it leaves
get_next(it, ka, off) ==
    LET \* if (!aobj->keys_arr) { ... aobj->keys_arr_offset = 0; }
        loaded == ka = 0 /\ HasNextBatch(it)
        it1 == IF loaded THEN it + 1 ELSE it
        ka1 == IF loaded THEN it + 1 ELSE ka
        off1 == IF ka = 0 THEN 0 ELSE off
    IN  IF ka1 = 0
        THEN [found |-> FALSE, iter |-> it1, keys_arr |-> ka1, keys_arr_offset |-> off1]
        ELSE IF Len(record_id_list[ka1]) = off1
             THEN \* keys_arr->num == aobj->keys_arr_offset: the next batch
                  IF HasNextBatch(it1)
                  THEN [found |-> TRUE, iter |-> it1 + 1, keys_arr |-> it1 + 1,
                        keys_arr_offset |-> 0]
                  ELSE [found |-> FALSE, iter |-> it1, keys_arr |-> ka1,
                        keys_arr_offset |-> off1]
             ELSE \* else aobj->keys_arr_offset++
                  [found |-> TRUE, iter |-> it1, keys_arr |-> ka1,
                   keys_arr_offset |-> off1 + 1]

\* pindex_digs[off] of batch ka: the kinds the record in that slot can have.
\* A slot at or beyond keys_arr->num was never filled: whatever digest lies
\* there can name a record of any kind.
SlotKinds(ka, off) ==
    IF off < Len(record_id_list[ka]) THEN {record_id_list[ka][off + 1]} ELSE RecordKinds

\* a close that leaves rec_open as it was
AcloseRecOpen_Unchanged(open) == open

\* aclose: aobj->rec_open once it returns
AcloseRecOpen(open) == FALSE

\* aclose(aobj): if the record is open, udf_record_close and ptn_release
AcloseCalls(open, id) ==
    <<AEv("aclose", NoId, IF open THEN "open" ELSE "closed")>>
    \o (IF open THEN <<AEv("udf_record_close", id, ""), AEv("ptn_release", id, "")>>
        ELSE << >>)

\* an open that keeps the reservation when the record lock fails
AopenCalls_NoReleaseOnLockFailure(kind, id) ==
    IF kind = "norsv" THEN <<AEv("ptn_reserve", id, "NULL")>>
    ELSE IF kind = "nolock"
    THEN <<AEv("ptn_reserve", id, "rsv"), AEv("udf_record_open", id, "failed")>>
    ELSE <<AEv("ptn_reserve", id, "rsv"), AEv("udf_record_open", id, "ok")>>

\* aopen(aobj, digest): ptn_reserve; if it gave a reservation,
\* udf_record_open; if that failed, ptn_release
AopenCalls(kind, id) ==
    IF kind = "norsv" THEN <<AEv("ptn_reserve", id, "NULL")>>
    ELSE IF kind = "nolock"
    THEN <<AEv("ptn_reserve", id, "rsv"), AEv("udf_record_open", id, "failed"),
           AEv("ptn_release", id, "")>>
    ELSE <<AEv("ptn_reserve", id, "rsv"), AEv("udf_record_open", id, "ok")>>

\* an open that marks the record open whatever udf_record_open returned
AopenOpened_Always(kind) == TRUE

\* aopen returns 0 (and has set rec_open) exactly when the record opened
AopenOpened(kind) == kind \in {"reject", "ok"}

\* as_aggr_process up to as_module_apply_stream: the cursor is set up on
\* cf_ll_getIterator(ap_recl); without an iterator the call returns AS_AGGR_ERR
AggrStart ==
    /\ aggr_pc = "start"
    /\ \E got \in BOOLEAN :
         IF got
         THEN /\ iter' = [live |-> TRUE, pos |-> 0]
              /\ aggr_log' = Append(aggr_log, AEv("cf_ll_getIterator", NoId, "ok"))
              /\ aggr_pc' = "runtime"
              /\ aggr_ret' = aggr_ret
         ELSE /\ iter' = [live |-> FALSE, pos |-> 0]
              /\ aggr_log' = Append(aggr_log, AEv("cf_ll_getIterator", NoId, "NULL"))
              /\ aggr_pc' = "returned"
              /\ aggr_ret' = <<AS_AGGR_ERR>>
    /\ keys_arr' = 0
    /\ keys_arr_offset' = 0
    /\ rec_open' = FALSE
    /\ UNCHANGED <<record_id_list, reads, loops>>
    /\ UNCHANGED <<vars, queueVars>>

\* the scripting runtime calls istream_read: aclose(aobj), then the loop
IstreamReadBegin ==
    /\ aggr_pc = "runtime"
    /\ reads < MaxReads
    /\ aggr_log' = aggr_log \o <<AEv("istream_read", NoId, "")>>
                   \o AcloseCalls(rec_open, <<keys_arr, keys_arr_offset>>)
    /\ rec_open' = AcloseRecOpen(rec_open)
    /\ reads' = reads + 1
    /\ loops' = 0
    /\ aggr_pc' = "reading"
    /\ UNCHANGED <<record_id_list, iter, keys_arr, keys_arr_offset, aggr_ret>>
    /\ UNCHANGED <<vars, queueVars>>

\* while (!aobj->rec_open) is false: as_val_reserve(aobj->urec); return it
IstreamReadReturn ==
    /\ aggr_pc = "reading"
    /\ rec_open
    /\ aggr_log' = Append(aggr_log, AEv("return", <<keys_arr, keys_arr_offset>>, "urec"))
    /\ aggr_pc' = "runtime"
    /\ UNCHANGED <<record_id_list, iter, keys_arr, keys_arr_offset, rec_open,
                   aggr_ret, reads, loops>>
    /\ UNCHANGED <<vars, queueVars>>

\* one pass through the loop of istream_read:
\*   if (get_next(aobj)) return NULL;
\*   if (!aopen(aobj, aobj->keys_arr->pindex_digs[aobj->keys_arr_offset]))
\*       if (!pre_check(...)) aclose(aobj);
IstreamReadLoop ==
    /\ aggr_pc = "reading"
    /\ ~rec_open
    /\ loops < MaxLoops
    /\ loops' = loops + 1
    /\ LET g == get_next(iter.pos, keys_arr, keys_arr_offset)
           id == <<g.keys_arr, g.keys_arr_offset>>
       IN  /\ iter' = [iter EXCEPT !.pos = g.iter]
           /\ keys_arr' = g.keys_arr
           /\ keys_arr_offset' = g.keys_arr_offset
           /\ IF g.found
              THEN \* get_next returned a digest: istream_read returns NULL
                   /\ aggr_log' = Append(aggr_log, AEv("return", id, "NULL"))
                   /\ aggr_pc' = "runtime"
                   /\ rec_open' = rec_open
              ELSE IF g.keys_arr = 0
              THEN \* aobj->keys_arr is NULL and is dereferenced
                   /\ aggr_log' = aggr_log
                   /\ aggr_pc' = "crashed"
                   /\ rec_open' = rec_open
              ELSE \E kind \in SlotKinds(g.keys_arr, g.keys_arr_offset) :
                     LET opened == AopenOpened(kind)
                         rejected == opened /\ kind = "reject"
                     IN  /\ aggr_log' =
                               aggr_log \o AopenCalls(kind, id)
                               \o (IF opened
                                   THEN <<AEv("pre_check", id,
                                              IF rejected THEN "rejected" ELSE "ok")>>
                                   ELSE << >>)
                               \o (IF rejected THEN AcloseCalls(TRUE, id) ELSE << >>)
                         /\ rec_open' = IF rejected THEN AcloseRecOpen(TRUE) ELSE opened
                         /\ aggr_pc' = "reading"
    /\ UNCHANGED <<record_id_list, aggr_ret, reads>>
    /\ UNCHANGED <<vars, queueVars>>

\* a cleanup that releases the iterator and leaves the record as it is
AcleanupCalls_IteratorOnly(it, open, id) ==
    IF it.live THEN <<AEv("cf_ll_releaseIterator", NoId, "")>> ELSE << >>

\* acleanup(aobj): release the iterator if there is one, then aclose
AcleanupCalls(it, open, id) ==
    (IF it.live THEN <<AEv("cf_ll_releaseIterator", NoId, "")>> ELSE << >>)
    \o AcloseCalls(open, id)

\* as_module_apply_stream returns ret; the rest of as_aggr_process:
\* udf_memtracker_cleanup, as_list_destroy, acleanup(&aobj), return ret
AggrFinish ==
    /\ aggr_pc = "runtime"
    /\ \E ret \in RuntimeStatuses :
         /\ aggr_log' = aggr_log \o <<AEv("as_module_apply_stream", NoId, ToString(ret))>>
                        \o AcleanupCalls(iter, rec_open, <<keys_arr, keys_arr_offset>>)
         /\ aggr_ret' = <<ret>>
    /\ iter' = [live |-> FALSE, pos |-> 0]
    /\ rec_open' = AcloseRecOpen(rec_open)
    /\ aggr_pc' = "returned"
    /\ UNCHANGED <<record_id_list, keys_arr, keys_arr_offset, reads, loops>>
    /\ UNCHANGED <<vars, queueVars>>

NextAggr ==
    \/ AggrStart
    \/ IstreamReadBegin
    \/ IstreamReadReturn
    \/ IstreamReadLoop
    \/ AggrFinish

SpecAggr == InitAggr /\ [][NextAggr]_allVars

\* aclose(aobj) called on the cursor between two reads: aclose is not
\* static, any code holding the cursor can call it
Aclose ==
    /\ aggr_pc = "runtime"
    /\ reads < MaxReads
    /\ aggr_log' = aggr_log \o AcloseCalls(rec_open, <<keys_arr, keys_arr_offset>>)
    /\ rec_open' = AcloseRecOpen(rec_open)
    /\ reads' = reads + 1
    /\ UNCHANGED <<record_id_list, iter, keys_arr, keys_arr_offset, aggr_pc,
                   aggr_ret, loops>>
    /\ UNCHANGED <<vars, queueVars>>

NextCursor ==
    \/ AggrStart
    \/ IstreamReadBegin
    \/ IstreamReadReturn
    \/ IstreamReadLoop
    \/ AggrFinish
    \/ Aclose

\* the cursor under any sequence of istream_read, aclose and acleanup calls
SpecCursor == InitAggr /\ [][NextCursor]_allVars

\* ---------------------------------------------------------------------
\* the stream as the scripting runtime sees it

\* what istream_read has returned so far, oldest first
Returns == SelectSeq(aggr_log, LAMBDA e : e.op = "return")

\* the identifiers of batch b from index o on that open and pass pre_check
RECURSIVE PassingFrom(_, _)
PassingFrom(b, o) ==
    IF b > Len(record_id_list) THEN << >>
    ELSE IF o >= Len(record_id_list[b]) THEN PassingFrom(b + 1, 0)
    ELSE (IF record_id_list[b][o + 1] = "ok" THEN << <<b, o>> >> ELSE << >>)
         \o PassingFrom(b, o + 1)

\* C14: when istream_read first returns end-of-stream, the records it has
\* returned before are exactly the records of record_id_list that open and
\* pass pre_check, each once, in list order and in index order within a batch
C14_DeliversPassingRecords ==
    \A i \in 1..Len(Returns) :
        (/\ Returns[i].res = "NULL"
         /\ \A j \in 1..(i - 1) : Returns[j].res = "urec")
        => [j \in 1..(i - 1) |-> Returns[j].id] = PassingFrom(1, 0)

\* number of calls of op with a result in ress among the first n logged calls
AggrCount(n, op, ress) ==
    Cardinality({i \in 1..n : aggr_log[i].op = op /\ aggr_log[i].res \in ress})

\* records opened and not yet closed after the first n logged calls
OpenRecords(n) ==
    AggrCount(n, "udf_record_open", {"ok"}) - AggrCount(n, "udf_record_close", {""})

\* reservations handed out by the ptn_reserve hook and not yet given back
\* to the ptn_release hook after the first n logged calls
HeldReservations(n) ==
    AggrCount(n, "ptn_reserve", {"rsv"}) - AggrCount(n, "ptn_release", {""})

\* C15: at every point of an aggregation call at most one record is open and
\* at most one reservation is held; between calls rec_open is true exactly
\* when a record and its reservation are held; whenever istream_read returns
\* end-of-stream no record is open and no reservation is held
C15_CursorInvariant ==
    /\ \A n \in 0..Len(aggr_log) :
         /\ OpenRecords(n) \in {0, 1}
         /\ HeldReservations(n) \in {0, 1}
    /\ rec_open <=> (/\ OpenRecords(Len(aggr_log)) = 1
                     /\ HeldReservations(Len(aggr_log)) = 1)
    /\ \A n \in 1..Len(aggr_log) :
         (aggr_log[n].op = "return" /\ aggr_log[n].res = "NULL")
         => (OpenRecords(n) = 0 /\ HeldReservations(n) = 0)

\* a record is open and handed to the runtime after an earlier record was
\* opened and closed and a read ended the stream
C15_Witness ==
    /\ aggr_pc = "runtime"
    /\ rec_open
    /\ AggrCount(Len(aggr_log), "udf_record_close", {""}) >= 1
    /\ AggrCount(Len(aggr_log), "return", {"NULL"}) >= 1

\* the results as_module_apply_stream can be logged with
StatusNames == {ToString(r) : r \in RuntimeStatuses}

\* as_aggr_process has returned after the scripting runtime ran
ReturnedFromRuntime ==
    /\ aggr_pc = "returned"
    /\ AggrCount(Len(aggr_log), "as_module_apply_stream", StatusNames) = 1

\* C16: when as_aggr_process returns after the scripting runtime exited, with
\* whatever status and after however many reads, no record is open, no
\* reservation is held, the outer iterator has been released exactly once,
\* and the value returned is the runtime's status
C16_EndOfCall ==
    ReturnedFromRuntime =>
        /\ ~rec_open
        /\ OpenRecords(Len(aggr_log)) = 0
        /\ HeldReservations(Len(aggr_log)) = 0
        /\ ~iter.live
        /\ AggrCount(Len(aggr_log), "cf_ll_releaseIterator", {""}) = 1
        /\ \E r \in RuntimeStatuses :
             /\ aggr_ret = <<r>>
             /\ AggrCount(Len(aggr_log), "as_module_apply_stream", {ToString(r)}) = 1

\* the runtime exits with an error while a record is open: the cleanup
\* closes the record and releases its reservation
C16_Witness ==
    /\ ReturnedFromRuntime
    /\ aggr_ret = <<1>>
    /\ aggr_log[Len(aggr_log)].op = "ptn_release"
    /\ aggr_log[Len(aggr_log) - 3].op = "cf_ll_releaseIterator"

\* the i-th and the j-th logged calls are calls of aclose, and aopen was not
\* called between them
CloseThenClose(i, j) ==
    /\ i < j
    /\ aggr_log[i].op = "aclose"
    /\ aggr_log[j].op = "aclose"
    /\ \A k \in (i + 1)..(j - 1) : aggr_log[k].op /= "ptn_reserve"

\* the position in the log at which the aclose logged at i has returned
AcloseEnd(i) == IF aggr_log[i].res = "open" THEN i + 2 ELSE i

\* C17: an aclose that follows an aclose, with no open between them, finds
\* the record closed, calls neither udf_record_close nor the ptn_release
\* hook, and leaves the cursor as the first aclose left it: nothing open,
\* nothing held
C17_CloseIdempotent ==
    \A i, j \in 1..Len(aggr_log) :
        CloseThenClose(i, j) =>
            /\ aggr_log[j].res = "closed"
            /\ (j < Len(aggr_log)
                => aggr_log[j + 1].op \notin {"udf_record_close", "ptn_release"})
            /\ OpenRecords(AcloseEnd(j)) = OpenRecords(AcloseEnd(i))
            /\ HeldReservations(AcloseEnd(j)) = HeldReservations(AcloseEnd(i))
            /\ OpenRecords(AcloseEnd(j)) = 0
            /\ HeldReservations(AcloseEnd(j)) = 0

\* an aclose that closed an open record is followed by a second aclose
C17_Witness ==
    \E i, j \in 1..Len(aggr_log) :
        /\ CloseThenClose(i, j)
        /\ aggr_log[i].res = "open"
        /\ aggr_log[i + 1].op = "udf_record_close"

\* ---------------------------------------------------------------------
\* the executor choice of process_transaction

\* the reservation succeeded and the executor has been started
ExecutorStarted == stage = "reserved" /\ pc /= "reserved"

\* C18 as stated: on reservation success exactly one executor is started,
\* once: the delete engine for a delete, else the UDF engine for a UDF
\* transaction or an internal-UDF origin, else the write engine for a write,
\* else the read engine
C18_Original ==
    ExecutorStarted =>
        /\ ExecutorStarts = 1
        /\ msg.delete => Count({"as_delete_start"}) = 1
        /\ (~msg.delete /\ (msg.udf \/ tr.origin = FROM_IUDF))
           => Count({"as_udf_start"}) = 1
        /\ (~msg.delete /\ ~msg.udf /\ tr.origin /= FROM_IUDF /\ msg.write)
           => Count({"as_write_start"}) = 1
        /\ (~msg.delete /\ ~msg.udf /\ tr.origin /= FROM_IUDF /\ ~msg.write)
           => Count({"as_read_start"}) = 1

\* C18, amended: on reservation success exactly one executor is started,
\* once: the read engine when the WRITE bit is clear, whatever the sub-class
\* and the origin; with the WRITE bit set, the delete engine for a delete,
\* else the UDF engine for a UDF transaction or an internal-UDF origin, else
\* the write engine
C18_ExecutorChoice ==
    ExecutorStarted =>
        /\ ExecutorStarts = 1
        /\ ~msg.write => Count({"as_read_start"}) = 1
        /\ (msg.write /\ msg.delete) => Count({"as_delete_start"}) = 1
        /\ (msg.write /\ ~msg.delete /\ (msg.udf \/ tr.origin = FROM_IUDF))
           => Count({"as_udf_start"}) = 1
        /\ (msg.write /\ ~msg.delete /\ ~msg.udf /\ tr.origin /= FROM_IUDF)
           => Count({"as_write_start"}) = 1

\* a reserved transaction of internal-UDF origin with the WRITE bit clear has
\* been given to the read engine
C18_Witness ==
    /\ ExecutorStarted
    /\ tr.origin = FROM_IUDF
    /\ ~msg.write
    /\ Count({"as_read_start"}) = 1

\* ---------------------------------------------------------------------
\* the round-robin counter

\* producer p has read g_current_q in a thr_tsvc_enqueue call: that call is
\* past its read, or has returned
HasObserved(p) == producers[p].pc = "incr" \/ HasEnqueued(p)

\* C19: in round-robin mode the counter is read and incremented in one
\* indivisible step, so no two enqueues of concurrent producers observe the
\* same counter value
C19_CounterAtomic ==
    ~use_queue_per_device =>
        \A p, q \in Producers :
            (p /= q /\ HasObserved(p) /\ HasObserved(q))
            => producers[p].current_q /= producers[q].current_q

\* ---------------------------------------------------------------------
\* reservations of the aggregation engine

\* the position of the first ptn_reserve call logged after position i, or
\* one past the end of the log
NextReserve(i) ==
    IF \E j \in (i + 1)..Len(aggr_log) : aggr_log[j].op = "ptn_reserve"
    THEN CHOOSE j \in (i + 1)..Len(aggr_log) :
             /\ aggr_log[j].op = "ptn_reserve"
             /\ \A k \in (i + 1)..(j - 1) : aggr_log[k].op /= "ptn_reserve"
    ELSE Len(aggr_log) + 1

\* the ptn_release calls logged between the reserve at i and the next reserve
ReleasesAfter(i) ==
    {k \in (i + 1)..(NextReserve(i) - 1) : aggr_log[k].op = "ptn_release"}

\* the logged call at position k is a call of op with result res
IsCall(k, op, res) ==
    k \in 1..Len(aggr_log) /\ aggr_log[k].op = op /\ aggr_log[k].res = res

\* C20: a ptn_reserve that returned NULL is followed by no ptn_release; one
\* that returned a reservation is released exactly once, for the same
\* record: at once when udf_record_open fails, by the aclose right after a
\* rejecting pre_check (before the next identifier is reserved), and
\* otherwise by the aclose at the start of the next istream_read or by the
\* aclose of acleanup
C20_ReserveReleaseMatched ==
    \A i \in 1..Len(aggr_log) :
        aggr_log[i].op = "ptn_reserve" =>
            IF aggr_log[i].res = "NULL"
            THEN ReleasesAfter(i) = {}
            ELSE /\ Cardinality(ReleasesAfter(i)) <= 1
                 /\ (NextReserve(i) <= Len(aggr_log) \/ aggr_pc = "returned")
                    => Cardinality(ReleasesAfter(i)) = 1
                 /\ \A k \in ReleasesAfter(i) : aggr_log[k].id = aggr_log[i].id
                 /\ IsCall(i + 1, "udf_record_open", "failed")
                    => ReleasesAfter(i) = {i + 2}
                 /\ IsCall(i + 2, "pre_check", "rejected")
                    => /\ IsCall(i + 3, "aclose", "open")
                       /\ ReleasesAfter(i) = {i + 5}
                 /\ IsCall(i + 2, "pre_check", "ok")
                    => \A k \in ReleasesAfter(i) :
                          /\ IsCall(k - 2, "aclose", "open")
                          /\ aggr_log[k - 3].op \in {"istream_read", "cf_ll_releaseIterator"}

\* one call in which a record lock failed, a pre_check rejected and two
\* records were delivered, one closed by the next read and one by the
\* cleanup, and which has returned
C20_Witness ==
    /\ aggr_pc = "returned"
    /\ AggrCount(Len(aggr_log), "udf_record_open", {"failed"}) >= 1
    /\ AggrCount(Len(aggr_log), "pre_check", {"rejected"}) >= 1
    /\ AggrCount(Len(aggr_log), "pre_check", {"ok"}) >= 2
    /\ AggrCount(Len(aggr_log), "ptn_release", {""}) >= 4

\* ---------------------------------------------------------------------
\* the end of the stream

\* batch ka, index off is an identifier of record_id_list
InList(ka, off) ==
    /\ ka \in 1..Len(record_id_list)
    /\ off >= 0
    /\ off < Len(record_id_list[ka])

\* the cursor has no further identifier: no batch is left in the outer
\* iterator and the current batch, if there is one, has been walked through
Exhausted ==
    /\ ~HasNextBatch(iter.pos)
    /\ keys_arr /= 0 => keys_arr_offset >= Len(record_id_list[keys_arr]) - 1

\* C21: every istream_read call returns: it does not stop on a missing
\* batch; it returns end-of-stream only when get_next found no further
\* identifier; and it calls the ptn_reserve hook only for an identifier of
\* record_id_list, so that an exhausted iterator (an empty list included)
\* gives end-of-stream with no open attempted
C21_ReadTerminates ==
    /\ aggr_pc /= "crashed"
    /\ (/\ Len(aggr_log) > 0
        /\ aggr_log[Len(aggr_log)].op = "return"
        /\ aggr_log[Len(aggr_log)].res = "NULL")
       => Exhausted
    /\ \A n \in 1..Len(aggr_log) :
         aggr_log[n].op = "ptn_reserve"
         => InList(aggr_log[n].id[1], aggr_log[n].id[2])

\* ---------------------------------------------------------------------
\* the destination check of process_transaction

\* the reservation step is over and its result has been through the
\* destination check
PastDestCheck == stage \in {"reserved", "not_reserved", "crashed"}

MaxYields == 5

\* get_next(aobj) called on the cursor: get_next is not static
GetNextCall ==
    /\ aggr_pc = "runtime"
    /\ reads < MaxYields
    /\ LET g == get_next(iter.pos, keys_arr, keys_arr_offset)
       IN  /\ iter' = [iter EXCEPT !.pos = g.iter]
           /\ keys_arr' = g.keys_arr
           /\ keys_arr_offset' = g.keys_arr_offset
           /\ aggr_log' = Append(aggr_log,
                                 AEv("get_next", <<g.keys_arr, g.keys_arr_offset>>,
                                     IF g.found THEN "digest" ELSE "NULL"))
    /\ reads' = reads + 1
    /\ UNCHANGED <<record_id_list, rec_open, aggr_pc, aggr_ret, loops>>
    /\ UNCHANGED <<vars, queueVars>>

NextGetNext ==
    \/ AggrStart
    \/ GetNextCall

\* a cursor on which get_next is called again and again
SpecGetNext == InitAggr /\ [][NextGetNext]_allVars

\* what get_next has returned so far, oldest first
Yields == SelectSeq(aggr_log, LAMBDA e : e.op = "get_next")

\* the identifiers of record_id_list from batch b, index o on, in order
RECURSIVE IdsFrom(_, _)
IdsFrom(b, o) ==
    IF b > Len(record_id_list) THEN << >>
    ELSE IF o >= Len(record_id_list[b]) THEN IdsFrom(b + 1, 0)
    ELSE << <<b, o>> >> \o IdsFrom(b, o + 1)

\* C23: every identifier get_next yields lies at an index in [0, num) of a
\* batch of the list, and when get_next first returns NULL the identifiers
\* yielded before are all the elements of all batches, index 0 of the first
\* batch included, each once and in order
C23_YieldsEveryElementOnce ==
    \A i \in 1..Len(Yields) :
        /\ Yields[i].res = "digest" => InList(Yields[i].id[1], Yields[i].id[2])
        /\ (/\ Yields[i].res = "NULL"
            /\ \A j \in 1..(i - 1) : Yields[j].res = "digest")
           => [j \in 1..(i - 1) |-> Yields[j].id] = IdsFrom(1, 0)

\* ---------------------------------------------------------------------
\* the router and the dispatcher

\* the path process_transaction takes for a message with READ bit r and
\* WRITE bit w: "Both can be set together, but is_write puts us on the
\* 'write path'"; neither is a parameter error
DispatcherPath(r, w) == IF w THEN "write" ELSE IF r THEN "read" ELSE "none"

\* queue n_q is a write queue of the namespace ns: the second half of its
\* device queues, or dev_q_offset + 1 when it is memory only
IsWriteQueue(n_q, ns) ==
    IF namespaces[ns].n_devices > 0
    THEN /\ n_q >= namespaces[ns].dev_q_offset + namespaces[ns].n_devices
         /\ n_q < namespaces[ns].dev_q_offset + 2 * namespaces[ns].n_devices
    ELSE n_q = namespaces[ns].dev_q_offset + 1

\* queue n_q is a read queue of the namespace ns: the first half of its
\* device queues, or dev_q_offset when it is memory only
IsReadQueue(n_q, ns) ==
    IF namespaces[ns].n_devices > 0
    THEN /\ n_q >= namespaces[ns].dev_q_offset
         /\ n_q < namespaces[ns].dev_q_offset + namespaces[ns].n_devices
    ELSE n_q = namespaces[ns].dev_q_offset

\* C24: in queue-per-device mode a transaction that process_transaction
\* puts on the write path (WRITE bit set, with or without the READ bit) has
\* been placed on a write queue of its namespace, and one that it puts on
\* the read path on a read queue
C24_RouterAgreesWithDispatcher ==
    (use_queue_per_device /\ tsvc_pc = "running") =>
        \A p \in Producers :
            HasEnqueued(p) =>
                /\ DispatcherPath(producers[p].read, producers[p].write) = "write"
                   => IsWriteQueue(producers[p].n_q, producers[p].ns)
                /\ DispatcherPath(producers[p].read, producers[p].write) = "read"
                   => IsReadQueue(producers[p].n_q, producers[p].ns)

\* ========================================================================
\* The workers of the queue plane (thr_tsvc)
\* ========================================================================

\* g_config.n_transaction_queues of the configurations whose workers run
WorkerQueues == {1, 2}

\* g_config.n_transaction_threads_per_queue
WorkerCounts == {1, 2}

\* shared queues (the workers do not depend on how the router chooses the
\* queue); g_current_q = 0 as the program starts it; producer 1 pushes a run
\* of MaxPushes transactions, every other producer pushes one
InitWorkers ==
    /\ DispatcherAside
    /\ AggregationAside
    /\ use_queue_per_device = FALSE
    /\ n_transaction_queues \in WorkerQueues
    /\ storage_devices = <<0>>
    /\ namespaces = [i \in 1..Len(storage_devices) |-> [n_devices |-> 0, dev_q_offset |-> 0]]
    /\ g_transaction_queues = [i \in 0..(MAX_TRANSACTION_QUEUES - 1) |-> NoQueue]
    /\ g_current_q = 0
    /\ tsvc_pc = "start"
    /\ producers = [p \in Producers |-> ProducerIdle(IF p = 1 THEN MaxPushes ELSE 1)]
    /\ n_transaction_threads_per_queue \in WorkerCounts
    /\ workers = << >>
    /\ worker_log = EmptyWorkerLog

\* cf_queue_pop(q, &tr, CF_QUEUE_FOREVER) on a queue that holds q: the
\* oldest transaction, and what the queue holds afterwards
cf_queue_pop(q) == [tr |-> Head(q), rest |-> Tail(q)]

\* thr_tsvc, the blocking pop: worker w takes the oldest transaction of its
\* queue
Pop(w) ==
    /\ tsvc_pc = "running"
    /\ w \in DOMAIN workers
    /\ workers[w].pc = "pop"
    /\ g_transaction_queues[w[1]].items /= << >>
    /\ LET got == cf_queue_pop(g_transaction_queues[w[1]].items)
       IN  /\ g_transaction_queues' =
                [g_transaction_queues EXCEPT ![w[1]].items = got.rest]
           /\ workers' = [workers EXCEPT ![w] = [pc |-> "process", tr |-> got.tr]]
           /\ worker_log' = [worker_log EXCEPT
                                 !.pops[w[1]] = Append(@, [w |-> w, tr |-> got.tr])]
    /\ UNCHANGED <<use_queue_per_device, n_transaction_queues, storage_devices,
                   namespaces, g_current_q, tsvc_pc, producers,
                   n_transaction_threads_per_queue>>
    /\ UNCHANGED <<vars, aggrVars>>

\* a loop body that calls the dispatcher twice for one pop
ProcessCalls_Twice(w) == <<w, w>>

\* thr_tsvc after the pop: process_transaction(&tr), once, by worker w
ProcessCalls(w) == <<w>>

\* thr_tsvc, the rest of the loop body: the dispatcher is called with the
\* popped transaction and the worker waits again
Process(w) ==
    /\ tsvc_pc = "running"
    /\ w \in DOMAIN workers
    /\ workers[w].pc = "process"
    /\ worker_log' = [worker_log EXCEPT !.calls[workers[w].tr] = @ \o ProcessCalls(w)]
    /\ workers' = [workers EXCEPT ![w] = WorkerWaiting]
    /\ UNCHANGED <<use_queue_per_device, n_transaction_queues, storage_devices,
                   namespaces, g_transaction_queues, g_current_q, tsvc_pc, producers,
                   n_transaction_threads_per_queue>>
    /\ UNCHANGED <<vars, aggrVars>>

\* every thread the configurations of InitWorkers can start
ServicedThreads ==
    UNION {TransactionThreads(q, c) : q \in WorkerQueues, c \in WorkerCounts}

NextWorkers ==
    \/ as_tsvc_init
    \/ \E p \in Producers : RoundRobinRead(p)
    \/ \E p \in Producers : RoundRobinWrite(p)
    \/ \E w \in ServicedThreads : Pop(w)
    \/ \E w \in ServicedThreads : Process(w)

\* the scheduler lets every worker that can pop or dispatch do so
WorkersFair ==
    \A w \in ServicedThreads :
        WF_allVars(Pop(w)) /\ WF_allVars(Process(w))

SpecWorkers == InitWorkers /\ [][NextWorkers]_allVars /\ WorkersFair

\* transaction t has been pushed by its producer
Pushed(t) == t.seq <= producers[t.producer].pushed

\* transaction t waits in queue i
InQueue(t, i) ==
    \E k \in 1..Len(g_transaction_queues[i].items) :
        g_transaction_queues[i].items[k] = t

\* the positions, among the pops made on queue i, of the pops of t
PopsOf(t, i) ==
    {k \in 1..Len(worker_log.pops[i]) : worker_log.pops[i][k].tr = t}

\* the queues transaction t has been popped from
PoppedFrom(t) == {i \in 0..(n_transaction_queues - 1) : PopsOf(t, i) /= {}}

\* transaction t has been passed to process_transaction
Dispatched(t) == worker_log.calls[t] /= << >>

\* a pushed transaction is in one queue or was popped once - by a worker of
\* the queue the router chose, when it is its producer's latest - and is
\* passed to process_transaction at most once, by the worker that popped it;
\* pops of one producer's transactions from one queue follow the push order
PoppedOnceInOrder ==
    tsvc_pc = "running" =>
    /\ \A t \in Pushable :
         /\ Pushed(t) =>
              Cardinality({i \in 0..(n_transaction_queues - 1) : InQueue(t, i)})
              + Cardinality(PoppedFrom(t)) = 1
         /\ ~Pushed(t) => PoppedFrom(t) = {}
         /\ \A i \in PoppedFrom(t) :
              /\ Cardinality(PopsOf(t, i)) = 1
              /\ t.seq = producers[t.producer].pushed => i = producers[t.producer].n_q
         /\ Len(worker_log.calls[t]) <= 1
         /\ \A k \in 1..Len(worker_log.calls[t]) :
              \E i \in PoppedFrom(t) : \E j \in PopsOf(t, i) :
                  worker_log.pops[i][j].w = worker_log.calls[t][k]
    /\ \A i \in 0..(n_transaction_queues - 1) :
         \A a, b \in 1..Len(worker_log.pops[i]) :
             (/\ a < b
              /\ worker_log.pops[i][a].tr.producer = worker_log.pops[i][b].tr.producer)
             => worker_log.pops[i][a].tr.seq < worker_log.pops[i][b].tr.seq

\* C25: with workers that are scheduled fairly, every transaction that
\* thr_tsvc_enqueue pushed is popped by exactly one worker of its queue and
\* passed to process_transaction exactly once - never lost and never
\* processed twice, with one or several workers per queue - and the
\* transactions one producer pushed to one queue are popped in push order
C25_PushedIsProcessedOnce ==
    /\ []PoppedOnceInOrder
    /\ \A t \in Pushable :
         (tsvc_pc = "running" /\ Pushed(t)) ~> Dispatched(t)

\* two workers serve the one shared queue; every transaction the producers
\* pushed to it has been popped and dispatched, and both workers took part
C25_Witness ==
    /\ tsvc_pc = "running"
    /\ n_transaction_queues = 1
    /\ n_transaction_threads_per_queue = 2
    /\ \A p \in Producers : producers[p].left = 0 /\ producers[p].pc = "idle"
    /\ \A t \in Pushable : Pushed(t) => Dispatched(t)
    /\ Len(worker_log.pops[0]) = MaxPushes + 1
    /\ \E t, u \in Pushable : worker_log.calls[t] /= worker_log.calls[u]

====
